---- MODULE Spec2Model ----
(***************************************************************************)
(* A model of js/src/wasm/WasmGenerator.cpp: the ModuleGenerator that      *)
(* batches function bodies into compile tasks, runs them on helper threads *)
(* (or inline), appends each task's CompiledCode to the master buffer      *)
(* while rebasing its offsets, patches calls through far-jump islands and  *)
(* finishes the code segment.                                              *)
(***************************************************************************)
EXTENDS Integers, Sequences, FiniteSets, TLC

\* ------------------------------------------------------------- bounds
\* Number of function definitions of the module being compiled.
NumFuncs == 3
\* Number of compile tasks other generators put on the shared worklist.
MaxForeign == 1
MaxGlobals == 3

\* ------------------------------------------------- program constants
\* Offsets are scaled down: one unit stands for a block of machine code.
\* The largest uint32_t; TLC's integers end at 2^31 - 1, which stands for it.
UINT32_MAX == 2147483647
BAD_CODE_RANGE == UINT32_MAX
CodeAlignment == 2
jumpThreshold == 8
JumpImmediateRange == 16
FarJumpSize == 1
TlsReloadSize == 1
maxWasmCompilationThreads == 1
wasmBatchThreshold == 1

Funcs == 0 .. (NumFuncs - 1)
Traps == {"Unreachable", "OutOfBounds"}
SymbolicAddresses == {"HandleExecutionInterrupt", "ReportTrap"}
NoTarget == [funcIndex |-> 0, trap |-> "Unreachable"]

Min(a, b) == IF a < b THEN a ELSE b

Last(s) == s[Len(s)]

Front(s) == SubSeq(s, 1, Len(s) - 1)

\* ------------------------------------------------------- MacroAssembler
\* masm_.haltingAlign(alignment): pad the buffer to a multiple of alignment.
AlignUp(n, a) == ((n + a - 1) \div a) * a

haltingAlign(g) == [g EXCEPT !.masm.size = AlignUp(@, CodeAlignment)]

\* masm_.patchCall(callerOffset, calleeOffset): the call whose return address
\* is callerOffset now branches to calleeOffset.
patchCall(g, callerOffset, calleeOffset) ==
    [g EXCEPT !.masm.calls = (callerOffset :> calleeOffset) @@ @]

\* masm_.patchFarJump(jump, target).
patchFarJump(g, jump, target) ==
    [g EXCEPT !.masm.farJumps = (jump :> target) @@ @]

\* masm_.farJumpWithPatch(): emits the placeholder jump at the current offset,
\* which is the patch point it returns.
farJumpWithPatch(g) == [g EXCEPT !.masm.size = @ + FarJumpSize]

\* masm_.loadPtr(Address(FramePointer, offsetof(Frame, tls)), WasmTlsReg).
loadPtr(g) == [g EXCEPT !.masm.size = @ + TlsReloadSize]

\* ---------------------------------------------------------- CodeRange
funcNormalEntry(cr) == cr.begin + cr.beginToNormalEntry

CodeRangeOffsetBy(cr, offset) ==
    [cr EXCEPT !.begin = @ + offset, !.end = @ + offset]

CallSiteOffsetBy(cs, offset) ==
    [cs EXCEPT !.returnAddressOffset = @ + offset]

FarJumpOffsetBy(fj, offset) == [fj EXCEPT !.jump = @ + offset]

MemoryAccessOffsetBy(ma, offset) == [ma EXCEPT !.insnOffset = @ + offset]

FarJumpIsland(begin, end) ==
    [kind |-> "FarJumpIsland", begin |-> begin, end |-> end,
     funcIndex |-> 0, trap |-> "Unreachable", beginToNormalEntry |-> 0]

\* ------------------------------------------------------ the call patcher
funcIsCompiled(g, funcIndex) == g.funcToCodeRange[funcIndex] # BAD_CODE_RANGE

funcCodeRange(g, funcIndex) ==
    g.metadataTier.codeRanges[g.funcToCodeRange[funcIndex] + 1]

\* A variant that takes every callee to be in range.
InRange_Always(caller, callee) == TRUE

InRange(caller, callee) ==
    LET range == Min(jumpThreshold, JumpImmediateRange)
    IN  IF caller < callee THEN callee - caller < range
                           ELSE caller - callee < range

\* A call far-jump island for funcIndex at the end of the buffer.
emitCallFarJump(g, funcIndex) ==
    LET begin == g.masm.size
        g1 == [farJumpWithPatch(g) EXCEPT
                 !.callFarJumps = Append(@, [funcIndex |-> funcIndex, jump |-> begin])]
    IN  [g1 EXCEPT !.metadataTier.codeRanges =
                      Append(@, FarJumpIsland(begin, g1.masm.size))]

\* A trap far-jump island: the TLS reload, then the jump.
emitTrapFarJump(g, trap) ==
    LET begin == g.masm.size
        g1 == loadPtr(g)
        g2 == [farJumpWithPatch(g1) EXCEPT
                 !.trapFarJumps = Append(@, [trap |-> trap, jump |-> g1.masm.size])]
    IN  [g2 EXCEPT !.metadataTier.codeRanges =
                      Append(@, FarJumpIsland(begin, g2.masm.size))]

\* A debug-trap far-jump island.
emitDebugTrapFarJump(g) ==
    LET begin == g.masm.size
        g1 == loadPtr(g)
        g2 == farJumpWithPatch(g1)
    IN  [g2 EXCEPT !.metadataTier.codeRanges =
                      Append(@, FarJumpIsland(begin, g2.masm.size)),
                   !.debugTrapFarJumps = Append(@, g1.masm.size),
                   !.metadataTier.debugTrapFarJumpOffsets = Append(@, begin)]

\* A variant that never looks an island up in the map of the pass.
linkFuncCallSite_NoSharing(g, callerOffset, funcIndex, existingCallFarJumps) ==
    IF /\ funcIsCompiled(g, funcIndex)
       /\ InRange(callerOffset, funcNormalEntry(funcCodeRange(g, funcIndex)))
    THEN patchCall(g, callerOffset, funcNormalEntry(funcCodeRange(g, funcIndex)))
    ELSE patchCall(emitCallFarJump(g, funcIndex), callerOffset, g.masm.size)

linkFuncCallSite(g, callerOffset, funcIndex, existingCallFarJumps) ==
    IF /\ funcIsCompiled(g, funcIndex)
       /\ InRange(callerOffset, funcNormalEntry(funcCodeRange(g, funcIndex)))
    THEN patchCall(g, callerOffset, funcNormalEntry(funcCodeRange(g, funcIndex)))
    ELSE IF funcIndex \in DOMAIN existingCallFarJumps
         THEN patchCall(g, callerOffset, existingCallFarJumps[funcIndex])
         ELSE patchCall(emitCallFarJump(g, funcIndex), callerOffset, g.masm.size)

\* A variant that takes whatever trap island the pass has emitted.
linkTrapCallSite_AnyTrap(g, callerOffset, trap, existingTrapFarJumps) ==
    IF DOMAIN existingTrapFarJumps # {}
    THEN patchCall(g, callerOffset,
                   existingTrapFarJumps[CHOOSE t \in DOMAIN existingTrapFarJumps : TRUE])
    ELSE patchCall(emitTrapFarJump(g, trap), callerOffset, g.masm.size)

linkTrapCallSite(g, callerOffset, trap, existingTrapFarJumps) ==
    IF trap \in DOMAIN existingTrapFarJumps
    THEN patchCall(g, callerOffset, existingTrapFarJumps[trap])
    ELSE patchCall(emitTrapFarJump(g, trap), callerOffset, g.masm.size)

\* A variant that emits a debug-trap island only when there is none yet.
linkDebugCallSite_OnlyFirst(g, callerOffset) ==
    LET jumps == g.metadataTier.debugTrapFarJumpOffsets
    IN  IF jumps = << >>
        THEN emitDebugTrapFarJump(g)
        ELSE g

linkDebugCallSite(g, callerOffset) ==
    LET jumps == g.metadataTier.debugTrapFarJumpOffsets
    IN  IF jumps = << >> \/ ~InRange(Last(jumps), callerOffset)
        THEN emitDebugTrapFarJump(g)
        ELSE g

\* The loop of linkCallSites, from callSites[lastPatchedCallSite_] on, with
\* the two maps that are local to one pass.
RECURSIVE linkCallSitesFrom(_, _, _)
linkCallSitesFrom(g, existingCallFarJumps, existingTrapFarJumps) ==
    IF g.lastPatchedCallSite >= Len(g.metadataTier.callSites)
    THEN g
    ELSE LET callSite == g.metadataTier.callSites[g.lastPatchedCallSite + 1]
             target == g.callSiteTargets[g.lastPatchedCallSite + 1]
             callerOffset == callSite.returnAddressOffset
             island == g.masm.size
             g1 == CASE callSite.kind = "Func" ->
                          linkFuncCallSite(g, callerOffset, target.funcIndex,
                                           existingCallFarJumps)
                      [] callSite.kind = "TrapExit" ->
                          linkTrapCallSite(g, callerOffset, target.trap,
                                           existingTrapFarJumps)
                      [] callSite.kind \in {"Breakpoint", "EnterFrame", "LeaveFrame"} ->
                          linkDebugCallSite(g, callerOffset)
                      [] OTHER -> g
             calls == IF /\ callSite.kind = "Func"
                         /\ Len(g1.callFarJumps) > Len(g.callFarJumps)
                      THEN (target.funcIndex :> island) @@ existingCallFarJumps
                      ELSE existingCallFarJumps
             traps == IF /\ callSite.kind = "TrapExit"
                         /\ Len(g1.trapFarJumps) > Len(g.trapFarJumps)
                      THEN (target.trap :> island) @@ existingTrapFarJumps
                      ELSE existingTrapFarJumps
         IN  linkCallSitesFrom([g1 EXCEPT !.lastPatchedCallSite = @ + 1,
                                          !.visited = Append(@, g.lastPatchedCallSite + 1)],
                               calls, traps)

\* A variant in which every pass starts again from the first call site.
linkCallSites_FromStart(g) ==
    linkCallSitesFrom(haltingAlign([g EXCEPT !.lastPatchedCallSite = 0]), << >>, << >>)

linkCallSites(g) == linkCallSitesFrom(haltingAlign(g), << >>, << >>)

\* --------------------------------------------------------- the linker
\* A variant that counts code ranges from one.
\* A variant that takes function i to own code range i, as it does when
\* the functions are linked in index order with nothing in between.
noteCodeRange_ByFuncIndex(g, codeRangeIndex, codeRange) ==
    CASE codeRange.kind = "Function" ->
           [g EXCEPT !.funcToCodeRange[codeRange.funcIndex] = codeRange.funcIndex]
      [] OTHER -> g

noteCodeRange_FromOne(g, codeRangeIndex, codeRange) ==
    CASE codeRange.kind = "Function" ->
           [g EXCEPT !.funcToCodeRange[codeRange.funcIndex] = codeRangeIndex + 1]
      [] OTHER -> g

\* A variant that does not look at which trap a TrapExit range is for.
noteCodeRange_AnyTrap(g, codeRangeIndex, codeRange) ==
    CASE codeRange.kind = "Function" ->
           [g EXCEPT !.funcToCodeRange[codeRange.funcIndex] = codeRangeIndex]
      [] codeRange.kind = "TrapExit" ->
           [g EXCEPT !.trapCodeOffsets = [t \in Traps |-> codeRange.begin]]
      [] codeRange.kind = "DebugTrap" ->
           [g EXCEPT !.debugTrapCodeOffset = codeRange.begin]
      [] codeRange.kind = "OutOfBoundsExit" ->
           [g EXCEPT !.linkDataTier.outOfBoundsOffset = codeRange.begin]
      [] codeRange.kind = "UnalignedExit" ->
           [g EXCEPT !.linkDataTier.unalignedAccessOffset = codeRange.begin]
      [] codeRange.kind = "Interrupt" ->
           [g EXCEPT !.linkDataTier.interruptOffset = codeRange.begin]
      [] OTHER -> g

noteCodeRange(g, codeRangeIndex, codeRange) ==
    CASE codeRange.kind = "Function" ->
           [g EXCEPT !.funcToCodeRange[codeRange.funcIndex] = codeRangeIndex]
      [] codeRange.kind = "TrapExit" ->
           [g EXCEPT !.trapCodeOffsets[codeRange.trap] = codeRange.begin]
      [] codeRange.kind = "DebugTrap" ->
           [g EXCEPT !.debugTrapCodeOffset = codeRange.begin]
      [] codeRange.kind = "OutOfBoundsExit" ->
           [g EXCEPT !.linkDataTier.outOfBoundsOffset = codeRange.begin]
      [] codeRange.kind = "UnalignedExit" ->
           [g EXCEPT !.linkDataTier.unalignedAccessOffset = codeRange.begin]
      [] codeRange.kind = "Interrupt" ->
           [g EXCEPT !.linkDataTier.interruptOffset = codeRange.begin]
      [] OTHER -> g

\* A variant that puts the copies in front.
AppendForEach_Prepend(dstVec, copied) == copied \o dstVec

\* AppendForEach(dstVec, srcVec, op): dstVec grows by the copies of srcVec's
\* elements, op applied to each; `copied' is that sequence of copies.
AppendForEach(dstVec, copied) == dstVec \o copied

\* The noteCodeRange calls AppendForEach makes for the code ranges it copied
\* to indices first .. Len(codeRanges) - 1 (C++ indices, from 0).
RECURSIVE noteCodeRanges(_, _)
noteCodeRanges(g, first) ==
    IF first >= Len(g.metadataTier.codeRanges)
    THEN g
    ELSE noteCodeRanges(noteCodeRange(g, first, g.metadataTier.codeRanges[first + 1]),
                        first + 1)

\* A variant that leaves the offsets local to the artifact.
offsetInModule_NoRebase(g) == 0

\* A variant that reads masm_.size() before the alignment.
offsetInModule_Unaligned(g) == g.masm.size

\* const size_t offsetInModule = masm_.size(), after the alignment.
offsetInModule(g) == haltingAlign(g).masm.size

linkSymbolicAccesses(symbolicLinks, accesses, offset) ==
    [target \in SymbolicAddresses |->
        symbolicLinks[target] \o
        [i \in 1 .. Len(SelectSeq(accesses, LAMBDA a : a.target = target)) |->
            offset + SelectSeq(accesses, LAMBDA a : a.target = target)[i].patchAt]]

InternalLink(codeLabel, offset) ==
    [patchAtOffset |-> offset + codeLabel.patchAt,
     targetOffset |-> offset + codeLabel.target]

linkCompiledCode(g, code) ==
    LET offset == offsetInModule(g)
        first == Len(g.metadataTier.codeRanges)
        g1 == [haltingAlign(g) EXCEPT
                 !.masm.size = @ + code.bytesLength,
                 !.metadataTier.codeRanges =
                     AppendForEach(@, [i \in DOMAIN code.codeRanges |->
                                         CodeRangeOffsetBy(code.codeRanges[i], offset)]),
                 !.metadataTier.callSites =
                     AppendForEach(@, [i \in DOMAIN code.callSites |->
                                         CallSiteOffsetBy(code.callSites[i], offset)]),
                 !.callSiteTargets = @ \o code.callSiteTargets,
                 !.trapFarJumps =
                     AppendForEach(@, [i \in DOMAIN code.trapFarJumps |->
                                         FarJumpOffsetBy(code.trapFarJumps[i], offset)]),
                 !.callFarJumps =
                     AppendForEach(@, [i \in DOMAIN code.callFarJumps |->
                                         FarJumpOffsetBy(code.callFarJumps[i], offset)]),
                 !.metadataTier.memoryAccesses =
                     AppendForEach(@, [i \in DOMAIN code.memoryAccesses |->
                                         MemoryAccessOffsetBy(code.memoryAccesses[i], offset)]),
                 !.linkDataTier.symbolicLinks =
                     linkSymbolicAccesses(@, code.symbolicAccesses, offset),
                 !.linkDataTier.internalLinks =
                     @ \o [i \in DOMAIN code.codeLabels |->
                             InternalLink(code.codeLabels[i], offset)]]
    IN  noteCodeRanges(g1, first)

\* The part of finishTask that acts on the master buffer and the metadata.
\* A variant that looks at the buffer without the output to be appended.
finishTaskLink_IgnoreOutputLength(g, output) ==
    LET g0 == haltingAlign(g)
        g1 == IF ~InRange(g0.startOfUnpatchedCallsites, g0.masm.size)
              THEN linkCallSites([g0 EXCEPT !.startOfUnpatchedCallsites = g0.masm.size])
              ELSE g0
    IN  linkCompiledCode(g1, output)

finishTaskLink(g, output) ==
    LET g0 == haltingAlign(g)
        g1 == IF ~InRange(g0.startOfUnpatchedCallsites,
                          g0.masm.size + output.bytesLength)
              THEN linkCallSites([g0 EXCEPT !.startOfUnpatchedCallsites = g0.masm.size])
              ELSE g0
    IN  linkCompiledCode(g1, output)

RECURSIVE patchCallFarJumps(_, _)
patchCallFarJumps(g, i) ==
    IF i > Len(g.callFarJumps) THEN g
    ELSE patchCallFarJumps(
             patchFarJump(g, g.callFarJumps[i].jump,
                          funcNormalEntry(funcCodeRange(g, g.callFarJumps[i].funcIndex))),
             i + 1)

RECURSIVE patchTrapFarJumps(_, _)
patchTrapFarJumps(g, i) ==
    IF i > Len(g.trapFarJumps) THEN g
    ELSE patchTrapFarJumps(
             patchFarJump(g, g.trapFarJumps[i].jump,
                          g.trapCodeOffsets[g.trapFarJumps[i].trap]),
             i + 1)

RECURSIVE patchDebugTrapFarJumps(_, _)
patchDebugTrapFarJumps(g, i) ==
    IF i > Len(g.debugTrapFarJumps) THEN g
    ELSE patchDebugTrapFarJumps(
             patchFarJump(g, g.debugTrapFarJumps[i], g.debugTrapCodeOffset), i + 1)

\* A variant without the last linkCallSites pass.
finishLinking_NoLastPass(g) ==
    patchDebugTrapFarJumps(patchTrapFarJumps(patchCallFarJumps(g, 1), 1), 1)

finishLinking(g) ==
    patchDebugTrapFarJumps(patchTrapFarJumps(patchCallFarJumps(linkCallSites(g), 1), 1), 1)

\* ------------------------------------------------------- the exports
\* initWasm: the exported functions known at init(), from the export list
\* and the start function.
initExportedFuncs(module) ==
    {module.exports[i].funcIndex :
        i \in {j \in DOMAIN module.exports : module.exports[j].kind = "Function"}}
    \cup {module.startFuncIndex[i] : i \in DOMAIN module.startFuncIndex}

\* A variant that exports the elements of every table's segments.
elemExportedFuncs_AllTables(module) ==
    UNION {{seg.elemFuncIndices[i] : i \in DOMAIN seg.elemFuncIndices} :
              seg \in {module.elemSegments[k] : k \in DOMAIN module.elemSegments}}

\* The first loop of finishFuncExports: the elements of the segments of
\* external tables are exported too.
elemExportedFuncs(module) ==
    UNION {{seg.elemFuncIndices[i] : i \in DOMAIN seg.elemFuncIndices} :
              seg \in {module.elemSegments[k] :
                          k \in {j \in DOMAIN module.elemSegments :
                                    module.tables[module.elemSegments[j].tableIndex + 1].external}}}

\* std::sort on the vector filled from the hash set, whatever order the set
\* was walked in.
RECURSIVE sorted(_)
sorted(set) ==
    IF set = {} THEN << >>
    ELSE LET least == CHOOSE x \in set : \A y \in set : x <= y
         IN  << least >> \o sorted(set \ {least})

\* The FuncExportVector finishFuncExports stores in the metadata.
funcExportsOf(exportedFuncs) ==
    [i \in DOMAIN sorted(exportedFuncs) |-> [funcIndex |-> sorted(exportedFuncs)[i]]]

\* ------------------------------------------------------- CompiledCode
\* What a compiler (or the stub generator) hands to the generator; every
\* offset in it is local to the artifact.
EmptyCode ==
    [bytesLength |-> 0, codeRanges |-> << >>, callSites |-> << >>,
     callSiteTargets |-> << >>, trapFarJumps |-> << >>, callFarJumps |-> << >>,
     memoryAccesses |-> << >>, symbolicAccesses |-> << >>, codeLabels |-> << >>]

FunctionRange(funcIndex, begin, end) ==
    [kind |-> "Function", begin |-> begin, end |-> end, funcIndex |-> funcIndex,
     trap |-> "Unreachable", beginToNormalEntry |-> 1]

StubRange(kind, begin, trap) ==
    [kind |-> kind, begin |-> begin, end |-> begin + 1, funcIndex |-> 0,
     trap |-> trap, beginToNormalEntry |-> 0]

\* The shapes of function the bounded inputs are drawn from: the bytecode
\* length of the body, the length of its machine code, and what it contains.
FuncDef(bytecodeLength, length, callKind, callee, rich) ==
    [bytecodeLength |-> bytecodeLength, length |-> length, callKind |-> callKind,
     callee |-> callee, rich |-> rich]

SmallFuncDefs ==
    {FuncDef(1, 2, "None", 0, FALSE), FuncDef(2, 3, "Dynamic", 0, TRUE),
     FuncDef(2, 3, "Func", 0, FALSE), FuncDef(1, 2, "TrapExit", 0, FALSE)}

\* What the module environment says about exports: the export list, the
\* start function (<< >> when there is none), table 0 external or not and
\* table 1 internal, and one element segment for each of the two tables.
FuncExportOf(funcIndex) == [kind |-> "Function", funcIndex |-> funcIndex]

ModuleExports(exports, startFuncIndex, external, elemFuncIndices) ==
    [exports |-> exports,
     startFuncIndex |-> startFuncIndex,
     tables |-> << [external |-> external], [external |-> FALSE] >>,
     elemSegments |-> << [tableIndex |-> 0, elemFuncIndices |-> elemFuncIndices],
                         [tableIndex |-> 1, elemFuncIndices |-> << NumFuncs - 1 >>] >>]

SmallExports ==
    {ModuleExports(<< FuncExportOf(1) >>, << >>, TRUE, << 0 >>)}

AllExports ==
    {ModuleExports(exports, start, external, elems) :
        exports \in {<< >>, << FuncExportOf(1) >>, << FuncExportOf(1), FuncExportOf(0) >>,
                     << FuncExportOf(1), [kind |-> "Memory", funcIndex |-> 0],
                        FuncExportOf(1) >>},
        start \in {<< >>, << 0 >>, << NumFuncs - 1 >>},
        external \in BOOLEAN,
        elems \in {<< >>, << 1, 0, 1 >>}}

\* The machine code of one function: one Function code range, at most one
\* call site (its return address is the end of the function) and, for a
\* rich body, one entry in each of the other side tables.
FuncCode(funcIndex, def) ==
    [bytesLength |-> def.length,
     codeRanges |-> << FunctionRange(funcIndex, 0, def.length) >>,
     callSites |-> IF def.callKind = "None" THEN << >>
                   ELSE << [kind |-> def.callKind, returnAddressOffset |-> def.length] >>,
     callSiteTargets |-> IF def.callKind = "None" THEN << >>
                         ELSE << [funcIndex |-> def.callee,
                                  trap |-> IF def.callee = 0 THEN "OutOfBounds"
                                           ELSE "Unreachable"] >>,
     trapFarJumps |-> IF def.rich THEN << [trap |-> "Unreachable", jump |-> 1] >> ELSE << >>,
     callFarJumps |-> IF def.rich THEN << [funcIndex |-> funcIndex, jump |-> 2] >> ELSE << >>,
     memoryAccesses |-> IF def.rich THEN << [insnOffset |-> 1] >> ELSE << >>,
     symbolicAccesses |-> IF def.rich THEN << [patchAt |-> 2, target |-> "ReportTrap"] >>
                          ELSE << >>,
     codeLabels |-> IF def.rich THEN << [patchAt |-> 1, target |-> 3] >> ELSE << >>]

\* One function's code placed after the code already in a task's output.
AppendFuncCode(out, code) ==
    LET at == out.bytesLength
    IN  [bytesLength |-> at + code.bytesLength,
         codeRanges |-> out.codeRanges \o
             [i \in DOMAIN code.codeRanges |-> CodeRangeOffsetBy(code.codeRanges[i], at)],
         callSites |-> out.callSites \o
             [i \in DOMAIN code.callSites |-> CallSiteOffsetBy(code.callSites[i], at)],
         callSiteTargets |-> out.callSiteTargets \o code.callSiteTargets,
         trapFarJumps |-> out.trapFarJumps \o
             [i \in DOMAIN code.trapFarJumps |-> FarJumpOffsetBy(code.trapFarJumps[i], at)],
         callFarJumps |-> out.callFarJumps \o
             [i \in DOMAIN code.callFarJumps |-> FarJumpOffsetBy(code.callFarJumps[i], at)],
         memoryAccesses |-> out.memoryAccesses \o
             [i \in DOMAIN code.memoryAccesses |->
                 MemoryAccessOffsetBy(code.memoryAccesses[i], at)],
         symbolicAccesses |-> out.symbolicAccesses \o
             [i \in DOMAIN code.symbolicAccesses |->
                 [code.symbolicAccesses[i] EXCEPT !.patchAt = @ + at]],
         codeLabels |-> out.codeLabels \o
             [i \in DOMAIN code.codeLabels |->
                 [patchAt |-> code.codeLabels[i].patchAt + at,
                  target |-> code.codeLabels[i].target + at]]]

\* IonCompileFunctions / BaselineCompileFunctions: the output for a task's
\* inputs, one code range per input.
RECURSIVE CompileFunctions(_, _)
CompileFunctions(funcDefs, inputs) ==
    IF inputs = << >> THEN EmptyCode
    ELSE AppendFuncCode(CompileFunctions(funcDefs, Front(inputs)),
                        FuncCode(Last(inputs), funcDefs[Last(inputs)]))

\* GenerateStubs: the trap exits, the debug trap and the other exits.
GenerateStubs ==
    [EmptyCode EXCEPT
       !.bytesLength = 7,
       !.codeRanges = << StubRange("TrapExit", 0, "Unreachable"),
                         StubRange("TrapExit", 1, "OutOfBounds"),
                         StubRange("DebugTrap", 2, "Unreachable"),
                         StubRange("OutOfBoundsExit", 3, "Unreachable"),
                         StubRange("UnalignedExit", 4, "Unreachable"),
                         StubRange("Interrupt", 5, "Unreachable"),
                         StubRange("Throw", 6, "Unreachable") >>]

\* ------------------------------------------------------------- state
VARIABLES
    env_,                        \* the module being compiled and the host
    exportedFuncs_,
    masm_, metadataTier_, linkDataTier_, funcToCodeRange_, callSiteTargets_,
    callFarJumps_, trapFarJumps_, debugTrapFarJumps_, trapCodeOffsets_,
    debugTrapCodeOffset_, lastPatchedCallSite_, startOfUnpatchedCallsites_,
    parallel_, outstanding_, tasks_, freeTasks_, currentTask_, batchedBytecode_,
    startedFuncDefs_, finishedFuncDefs_, numFuncDefs_,
    error_,                      \* the caller's error slot, *error_
    cancelled_,                  \* the shared flag, *cancelled_
    taskState_,                  \* finished, numFailed, errorMessage
    wasmWorklist,                \* HelperThreadState().wasmWorklist
    helperThreads,               \* tasks being executed, with their results
    pc,                          \* where the coordinator thread is
    finishedLog,                 \* history: tasks in the order they finished
    linked,                      \* history: every linkCompiledCode call
    visited,                     \* history: the call sites linkCallSites visited
    globalDataLength_,           \* metadata_->globalDataLength
    allocated                    \* history: every allocateGlobalBytes call

linkVars ==
    << masm_, metadataTier_, linkDataTier_, funcToCodeRange_, callSiteTargets_,
       callFarJumps_, trapFarJumps_, debugTrapFarJumps_, trapCodeOffsets_,
       debugTrapCodeOffset_, lastPatchedCallSite_, startOfUnpatchedCallsites_,
       exportedFuncs_, linked, visited >>

poolVars == << tasks_, freeTasks_, currentTask_, batchedBytecode_ >>

flagVars == << parallel_, startedFuncDefs_, finishedFuncDefs_, numFuncDefs_ >>

workerVars == << wasmWorklist, helperThreads, taskState_, finishedLog >>

globalVars == << globalDataLength_, allocated >>

vars ==
    << env_, linkVars, poolVars, flagVars, outstanding_, error_, cancelled_,
       workerVars, pc, globalVars >>

\* The members the linker and the patcher act on, as one record.
G ==
    [masm |-> masm_, metadataTier |-> metadataTier_, linkDataTier |-> linkDataTier_,
     funcToCodeRange |-> funcToCodeRange_, callSiteTargets |-> callSiteTargets_,
     callFarJumps |-> callFarJumps_, trapFarJumps |-> trapFarJumps_,
     debugTrapFarJumps |-> debugTrapFarJumps_, trapCodeOffsets |-> trapCodeOffsets_,
     debugTrapCodeOffset |-> debugTrapCodeOffset_,
     lastPatchedCallSite |-> lastPatchedCallSite_,
     startOfUnpatchedCallsites |-> startOfUnpatchedCallsites_,
     visited |-> visited]

SetG(g) ==
    /\ masm_' = g.masm
    /\ metadataTier_' = g.metadataTier
    /\ linkDataTier_' = g.linkDataTier
    /\ funcToCodeRange_' = g.funcToCodeRange
    /\ callSiteTargets_' = g.callSiteTargets
    /\ callFarJumps_' = g.callFarJumps
    /\ trapFarJumps_' = g.trapFarJumps
    /\ debugTrapFarJumps_' = g.debugTrapFarJumps
    /\ trapCodeOffsets_' = g.trapCodeOffsets
    /\ debugTrapCodeOffset_' = g.debugTrapCodeOffset
    /\ lastPatchedCallSite_' = g.lastPatchedCallSite
    /\ startOfUnpatchedCallsites_' = g.startOfUnpatchedCallsites
    /\ visited' = g.visited

\* History: the code one linkCompiledCode call appended, with the buffer
\* size and the lengths of the side tables right after the call.
LinkRecord(g, code) ==
    [code |-> code, size |-> g.masm.size,
     codeRanges |-> Len(g.metadataTier.codeRanges),
     callSites |-> Len(g.metadataTier.callSites),
     trapFarJumps |-> Len(g.trapFarJumps),
     callFarJumps |-> Len(g.callFarJumps),
     memoryAccesses |-> Len(g.metadataTier.memoryAccesses),
     internalLinks |-> Len(g.linkDataTier.internalLinks),
     symbolicLinks |-> [t \in SymbolicAddresses |-> Len(g.linkDataTier.symbolicLinks[t])]]

NullChars == << >>

EmptyTask == [inputs |-> << >>, output |-> EmptyCode]

\* uint32_t subtraction, as on outstanding_.
Sub32(a, b) == IF a >= b THEN a - b ELSE UINT32_MAX - (b - a - 1)

\* --------------------------------------------------------------- Init
\* The state after the constructor and init(), for a module whose function
\* definitions are drawn from funcDefs.
InitGenerator(funcDefs, modes, extraThreads, modules) ==
    /\ env_ \in [funcDefs : [Funcs -> funcDefs], mode : modes,
                 canUseExtraThreads : extraThreads, module : modules]
    /\ exportedFuncs_ = initExportedFuncs(env_.module)
    /\ masm_ = [size |-> 0, calls |-> << >>, farJumps |-> << >>]
    /\ metadataTier_ = [codeRanges |-> << >>, callSites |-> << >>,
                        memoryAccesses |-> << >>, debugTrapFarJumpOffsets |-> << >>,
                        funcExports |-> << >>]
    /\ linkDataTier_ = [internalLinks |-> << >>,
                        symbolicLinks |-> [t \in SymbolicAddresses |-> << >>],
                        outOfBoundsOffset |-> 0, unalignedAccessOffset |-> 0,
                        interruptOffset |-> 0]
    /\ funcToCodeRange_ = [f \in Funcs |-> BAD_CODE_RANGE]
    /\ callSiteTargets_ = << >>
    /\ callFarJumps_ = << >>
    /\ trapFarJumps_ = << >>
    /\ debugTrapFarJumps_ = << >>
    /\ trapCodeOffsets_ = [t \in Traps |-> 0]
    /\ debugTrapCodeOffset_ = 0
    /\ lastPatchedCallSite_ = 0
    /\ startOfUnpatchedCallsites_ = 0
    /\ parallel_ = FALSE
    /\ outstanding_ = 0
    /\ tasks_ = << >>
    /\ freeTasks_ = << >>
    /\ currentTask_ = 0
    /\ batchedBytecode_ = 0
    /\ startedFuncDefs_ = FALSE
    /\ finishedFuncDefs_ = FALSE
    /\ numFuncDefs_ = 0
    /\ error_ = NullChars
    /\ cancelled_ = FALSE
    /\ taskState_ = [finished |-> << >>, numFailed |-> 0, errorMessage |-> NullChars]
    /\ wasmWorklist = << >>
    /\ helperThreads = << >>
    /\ pc = "idle"
    /\ finishedLog = << >>
    /\ linked = << >>
    /\ visited = << >>
    /\ globalDataLength_ = 0
    /\ allocated = << >>

Init == InitGenerator(SmallFuncDefs, {"Once", "Tier2"}, BOOLEAN, SmallExports)

\* ------------------------------------------------------ startFuncDefs
StartFuncDefs ==
    /\ pc = "idle"
    /\ ~startedFuncDefs_
    /\ ~finishedFuncDefs_
    /\ LET numTasks == IF env_.canUseExtraThreads
                       THEN 2 * maxWasmCompilationThreads ELSE 1
       IN  /\ parallel_' = env_.canUseExtraThreads
           /\ tasks_' = [i \in 1 .. numTasks |-> EmptyTask]
           /\ freeTasks_' = [i \in 1 .. numTasks |-> i]
    /\ startedFuncDefs_' = TRUE
    /\ UNCHANGED << env_, globalVars, linkVars, currentTask_, batchedBytecode_, finishedFuncDefs_,
                    numFuncDefs_, outstanding_, error_, cancelled_, workerVars, pc >>

\* ----------------------------------------------------- compileFuncDef
\* A variant in which the new function takes the place of the task's inputs.
compileFuncDefBody_Overwrite(funcIndex, free, tasks) ==
    LET task == IF currentTask_ = 0 THEN Last(free) ELSE currentTask_
        batched == batchedBytecode_ + env_.funcDefs[funcIndex].bytecodeLength
    IN  /\ currentTask_' = task
        /\ freeTasks_' = IF currentTask_ = 0 THEN Front(free) ELSE free
        /\ tasks_' = [tasks EXCEPT ![task].inputs = << funcIndex >>]
        /\ batchedBytecode_' = batched
        /\ pc' = IF batched <= wasmBatchThreshold
                 THEN "idle" ELSE "compileFuncDef.launchBatchCompile"

\* A variant that launches the task as soon as the threshold is reached.
compileFuncDefBody_AtThreshold(funcIndex, free, tasks) ==
    LET task == IF currentTask_ = 0 THEN Last(free) ELSE currentTask_
        batched == batchedBytecode_ + env_.funcDefs[funcIndex].bytecodeLength
    IN  /\ currentTask_' = task
        /\ freeTasks_' = IF currentTask_ = 0 THEN Front(free) ELSE free
        /\ tasks_' = [tasks EXCEPT ![task].inputs = Append(@, funcIndex)]
        /\ batchedBytecode_' = batched
        /\ pc' = IF batched < wasmBatchThreshold
                 THEN "idle" ELSE "compileFuncDef.launchBatchCompile"

\* compileFuncDef from freeTasks_.popCopy() on, with the free list and the
\* tasks as they are at that point.
compileFuncDefBody(funcIndex, free, tasks) ==
    LET task == IF currentTask_ = 0 THEN Last(free) ELSE currentTask_
        batched == batchedBytecode_ + env_.funcDefs[funcIndex].bytecodeLength
    IN  /\ currentTask_' = task
        /\ freeTasks_' = IF currentTask_ = 0 THEN Front(free) ELSE free
        /\ tasks_' = [tasks EXCEPT ![task].inputs = Append(@, funcIndex)]
        /\ batchedBytecode_' = batched
        /\ pc' = IF batched <= wasmBatchThreshold
                 THEN "idle" ELSE "compileFuncDef.launchBatchCompile"

\* A variant that asks for a finished task whenever there is no current task.
mustFinishOutstandingTask_NoFreeListCheck(current, free) == current = 0

\* if (!currentTask_) { if (freeTasks_.empty() && !finishOutstandingTask()) ...
mustFinishOutstandingTask(current, free) == current = 0 /\ free = << >>

CompileFuncDef ==
    /\ pc = "idle"
    /\ startedFuncDefs_
    /\ ~finishedFuncDefs_
    /\ numFuncDefs_ < NumFuncs
    /\ numFuncDefs_' = numFuncDefs_ + 1
    /\ IF mustFinishOutstandingTask(currentTask_, freeTasks_)
       THEN /\ pc' = "compileFuncDef.finishOutstandingTask"
            /\ UNCHANGED poolVars
       ELSE compileFuncDefBody(numFuncDefs_, freeTasks_, tasks_)
    /\ UNCHANGED << env_, globalVars, linkVars, parallel_, startedFuncDefs_, finishedFuncDefs_,
                    outstanding_, error_, cancelled_, workerVars >>

\* ----------------------------------------------- finishOutstandingTask
\* A variant that looks at the finished list before the failure count.
finishOutstandingTaskTurn_FinishedFirst(state) ==
    IF state.finished # << >> THEN "take"
    ELSE IF state.numFailed > 0 THEN "fail"
    ELSE "wait"

\* One turn of the loop of finishOutstandingTask, under the task-state lock:
\* it fails, takes a finished task, or waits on failedOrFinished.
finishOutstandingTaskTurn(state) ==
    IF state.numFailed > 0 THEN "fail"
    ELSE IF state.finished # << >> THEN "take"
    ELSE "wait"

\* A variant that takes the oldest finished task; C2 tells the two apart.
popFinished_Oldest(finished) == Head(finished)

\* task = taskState->finished.popCopy().
popFinished(finished) == Last(finished)

\* finishTask(task) on the master buffer and the metadata, with its history.
FinishTaskLink(output) ==
    LET g == finishTaskLink(G, output)
    IN  /\ SetG(g)
        /\ linked' = Append(linked, LinkRecord(g, output))
        /\ UNCHANGED exportedFuncs_

\* One turn of the loop of finishOutstandingTask, entered from compileFuncDef:
\* fail, or take a finished task, link it and go on with compileFuncDef, or wait.
CompileFuncDefFinishOutstandingTask ==
    /\ pc = "compileFuncDef.finishOutstandingTask"
    /\ IF finishOutstandingTaskTurn(taskState_) = "fail"
       THEN /\ pc' = "failed"
            /\ UNCHANGED << linkVars, poolVars, outstanding_, taskState_ >>
       ELSE IF finishOutstandingTaskTurn(taskState_) = "take"
       THEN LET task == popFinished(taskState_.finished)
            IN  /\ outstanding_' = Sub32(outstanding_, 1)
                /\ taskState_' = [taskState_ EXCEPT !.finished = SelectSeq(@, LAMBDA t : t # task)]
                /\ FinishTaskLink(tasks_[task].output)
                /\ compileFuncDefBody(numFuncDefs_ - 1, Append(freeTasks_, task),
                                      [tasks_ EXCEPT ![task].output = EmptyCode])
       ELSE /\ pc' = "compileFuncDef.wait"
            /\ UNCHANGED << linkVars, poolVars, outstanding_, taskState_ >>
    /\ UNCHANGED << env_, globalVars, flagVars, error_, cancelled_, wasmWorklist, helperThreads,
                    finishedLog >>

\* The same turn, entered from the loop of finishFuncDefs, which ends with
\* finishedFuncDefs_ set once nothing is outstanding.
FinishFuncDefsFinishOutstandingTask ==
    /\ pc = "finishFuncDefs.finishOutstandingTask"
    /\ IF finishOutstandingTaskTurn(taskState_) = "fail"
       THEN /\ pc' = "failed"
            /\ UNCHANGED << linkVars, poolVars, outstanding_, taskState_, finishedFuncDefs_ >>
       ELSE IF finishOutstandingTaskTurn(taskState_) = "take"
       THEN LET task == popFinished(taskState_.finished)
            IN  /\ outstanding_' = Sub32(outstanding_, 1)
                /\ taskState_' = [taskState_ EXCEPT !.finished = SelectSeq(@, LAMBDA t : t # task)]
                /\ FinishTaskLink(tasks_[task].output)
                /\ tasks_' = [tasks_ EXCEPT ![task].output = EmptyCode]
                /\ freeTasks_' = Append(freeTasks_, task)
                /\ finishedFuncDefs_' = (Sub32(outstanding_, 1) = 0)
                /\ pc' = IF Sub32(outstanding_, 1) = 0
                         THEN "idle" ELSE "finishFuncDefs.finishOutstandingTask"
                /\ UNCHANGED << currentTask_, batchedBytecode_ >>
       ELSE /\ pc' = "finishFuncDefs.wait"
            /\ UNCHANGED << linkVars, poolVars, outstanding_, taskState_, finishedFuncDefs_ >>
    /\ UNCHANGED << env_, globalVars, parallel_, startedFuncDefs_, numFuncDefs_, error_, cancelled_,
                    wasmWorklist, helperThreads, finishedLog >>

\* --------------------------------------------------- launchBatchCompile
\* ExecuteCompileTask on the coordinator's thread can succeed, fail with an
\* error message, or fail without one (out of memory).
CompileOutcomes == {"ok", "error", "oom"}

\* The message a compiler reports for a task.
ErrorOf(task) == << tasks_[task].inputs[1] >>

\* A variant that never looks at the flag.
cancelRequested_Ignored(cancelled) == FALSE

\* if (cancelled_ && *cancelled_) return false;
cancelRequested(cancelled) == cancelled

\* launchBatchCompile; `next' is where the caller goes on after a successful
\* launch.
\* A variant that hands the task to the helper threads in serial mode too.
launchBatchCompile_OffThread(next) ==
    IF cancelRequested(cancelled_)
    THEN /\ pc' = "failed"
         /\ UNCHANGED << linkVars, poolVars, outstanding_, error_, wasmWorklist >>
    ELSE /\ wasmWorklist' = Append(wasmWorklist,
                                   [state |-> "taskState_", task |-> currentTask_])
         /\ outstanding_' = outstanding_ + 1
         /\ currentTask_' = 0
         /\ batchedBytecode_' = 0
         /\ pc' = next
         /\ UNCHANGED << linkVars, tasks_, freeTasks_, error_ >>

\* A variant that keeps the launched task as the current task.
launchBatchCompile_KeepCurrent(next) ==
    IF cancelRequested(cancelled_)
    THEN /\ pc' = "failed"
         /\ UNCHANGED << linkVars, poolVars, outstanding_, error_, wasmWorklist >>
    ELSE /\ wasmWorklist' = Append(wasmWorklist,
                                   [state |-> "taskState_", task |-> currentTask_])
         /\ outstanding_' = outstanding_ + 1
         /\ batchedBytecode_' = 0
         /\ pc' = next
         /\ UNCHANGED << linkVars, tasks_, freeTasks_, currentTask_, error_ >>

launchBatchCompile(next) ==
    IF cancelRequested(cancelled_)
    THEN /\ pc' = "failed"
         /\ UNCHANGED << linkVars, poolVars, outstanding_, error_, wasmWorklist >>
    ELSE IF parallel_
    THEN \E started \in BOOLEAN :
            IF started
            THEN /\ wasmWorklist' = Append(wasmWorklist,
                                           [state |-> "taskState_", task |-> currentTask_])
                 /\ outstanding_' = outstanding_ + 1
                 /\ currentTask_' = 0
                 /\ batchedBytecode_' = 0
                 /\ pc' = next
                 /\ UNCHANGED << linkVars, tasks_, freeTasks_, error_ >>
            ELSE /\ pc' = "failed"
                 /\ UNCHANGED << linkVars, poolVars, outstanding_, error_, wasmWorklist >>
    ELSE \E outcome \in CompileOutcomes :
            IF outcome = "ok"
            THEN /\ FinishTaskLink(CompileFunctions(env_.funcDefs, tasks_[currentTask_].inputs))
                 /\ tasks_' = [tasks_ EXCEPT ![currentTask_] = EmptyTask]
                 /\ freeTasks_' = Append(freeTasks_, currentTask_)
                 /\ currentTask_' = 0
                 /\ batchedBytecode_' = 0
                 /\ pc' = next
                 /\ UNCHANGED << outstanding_, error_, wasmWorklist >>
            ELSE /\ error_' = IF outcome = "error" THEN ErrorOf(currentTask_) ELSE error_
                 /\ pc' = "failed"
                 /\ UNCHANGED << linkVars, poolVars, outstanding_, wasmWorklist >>

CompileFuncDefLaunchBatchCompile ==
    /\ pc = "compileFuncDef.launchBatchCompile"
    /\ launchBatchCompile("idle")
    /\ UNCHANGED << env_, globalVars, flagVars, cancelled_, helperThreads, taskState_, finishedLog >>

\* ------------------------------------------------------ finishFuncDefs
\* A variant that returns success at once, whatever is still batched or
\* outstanding.
FinishFuncDefs_NoDrain ==
    /\ pc = "idle"
    /\ startedFuncDefs_
    /\ ~finishedFuncDefs_
    /\ numFuncDefs_ = NumFuncs
    /\ pc' = "idle"
    /\ finishedFuncDefs_' = TRUE
    /\ UNCHANGED << env_, globalVars, linkVars, poolVars, parallel_, startedFuncDefs_,
                    numFuncDefs_, outstanding_, error_, cancelled_, workerVars >>

FinishFuncDefs ==
    /\ pc = "idle"
    /\ startedFuncDefs_
    /\ ~finishedFuncDefs_
    /\ numFuncDefs_ = NumFuncs
    /\ pc' = IF currentTask_ # 0 THEN "finishFuncDefs.launchBatchCompile"
             ELSE IF outstanding_ > 0 THEN "finishFuncDefs.finishOutstandingTask"
             ELSE "idle"
    /\ finishedFuncDefs_' = (currentTask_ = 0 /\ outstanding_ = 0)
    /\ UNCHANGED << env_, globalVars, linkVars, poolVars, parallel_, startedFuncDefs_, numFuncDefs_,
                    outstanding_, error_, cancelled_, workerVars >>

\* launchBatchCompile from finishFuncDefs; in serial mode nothing is
\* outstanding afterwards and finishFuncDefs returns at once.
FinishFuncDefsLaunchBatchCompile ==
    /\ pc = "finishFuncDefs.launchBatchCompile"
    /\ launchBatchCompile(IF parallel_ THEN "finishFuncDefs.finishOutstandingTask"
                          ELSE "idle")
    /\ finishedFuncDefs_' = (pc' = "idle")
    /\ UNCHANGED << env_, globalVars, parallel_, startedFuncDefs_, numFuncDefs_, cancelled_,
                    helperThreads, taskState_, finishedLog >>

\* --------------------------------------- finishModule and finishTier2
\* finishCodeSegment: finishFuncExports fills the export vector, the stubs
\* are generated into tasks_[0].output and linked, then finishLinking patches
\* every call and far jump.
FinishCodeSegment ==
    LET exported == exportedFuncs_ \cup elemExportedFuncs(env_.module)
        stubCode == GenerateStubs
        g == linkCompiledCode([G EXCEPT !.metadataTier.funcExports =
                                           funcExportsOf(exported)], stubCode)
    IN  /\ exportedFuncs_' = exported
        /\ SetG(finishLinking(g))
        /\ linked' = Append(linked, LinkRecord(g, stubCode))
        /\ tasks_' = [tasks_ EXCEPT ![1].output = stubCode]

\* A variant that finishes the code segment without finishFuncDefs.
FinishModule_Early ==
    /\ pc = "idle"
    /\ env_.mode = "Once"
    /\ FinishCodeSegment
    /\ pc' = "finished"
    /\ UNCHANGED << env_, globalVars, freeTasks_, currentTask_, batchedBytecode_, flagVars,
                    outstanding_, error_, cancelled_, workerVars >>

FinishModule ==
    /\ pc = "idle"
    /\ finishedFuncDefs_
    /\ env_.mode = "Once"
    /\ FinishCodeSegment
    /\ pc' = "finished"
    /\ UNCHANGED << env_, globalVars, freeTasks_, currentTask_, batchedBytecode_, flagVars,
                    outstanding_, error_, cancelled_, workerVars >>

FinishTier2 ==
    /\ pc = "idle"
    /\ finishedFuncDefs_
    /\ env_.mode = "Tier2"
    /\ IF cancelRequested(cancelled_)
       THEN /\ pc' = "failed"
            /\ UNCHANGED << linkVars, tasks_ >>
       ELSE /\ FinishCodeSegment
            /\ pc' = "finished"
    /\ UNCHANGED << env_, globalVars, freeTasks_, currentTask_, batchedBytecode_, flagVars,
                    outstanding_, error_, cancelled_, workerVars >>

\* ---------------------------------------------------- ~ModuleGenerator
\* A variant that leaves the worklist as it is.
EraseIf_Nothing(worklist) == worklist

\* A variant whose predicate holds of every task.
EraseIf_Everything(worklist) == << >>

\* EraseIf(worklist, pred) with pred(task) == (&task->state == &taskState_).
EraseIf(worklist) == SelectSeq(worklist, LAMBDA e : e.state # "taskState_")

\* if (error_ && !*error_) *error_ = Move(taskState_.lock()->errorMessage).
\* A variant that leaves the caller's slot as it is.
propagateError_Skip(errorMessage) ==
    /\ error_' = error_
    /\ pc' = "destroyed"

propagateError(errorMessage) ==
    /\ error_' = IF error_ = NullChars THEN errorMessage ELSE error_
    /\ pc' = "destroyed"

\* The destructor up to the end of the first locked block: with tasks
\* outstanding it takes this generator's tasks off the worklist.
Destructor ==
    /\ pc \in {"idle", "failed", "finished"}
    /\ IF parallel_ /\ outstanding_ # 0
       THEN /\ wasmWorklist' = EraseIf(wasmWorklist)
            /\ outstanding_' =
                   Sub32(outstanding_, Len(wasmWorklist) - Len(EraseIf(wasmWorklist)))
            /\ pc' = "~ModuleGenerator.drain"
            /\ UNCHANGED << error_, taskState_ >>
       ELSE /\ propagateError(taskState_.errorMessage)
            /\ taskState_' = [taskState_ EXCEPT !.errorMessage =
                                 IF error_ = NullChars THEN NullChars ELSE @]
            /\ UNCHANGED << wasmWorklist, outstanding_ >>
    /\ UNCHANGED << env_, globalVars, linkVars, poolVars, flagVars, cancelled_, helperThreads,
                    finishedLog >>

\* One turn of the destructor's wait loop, under the task-state lock.
DestructorDrain ==
    /\ pc = "~ModuleGenerator.drain"
    /\ LET left == Sub32(Sub32(outstanding_, Len(taskState_.finished)),
                         taskState_.numFailed)
       IN  /\ outstanding_' = left
           /\ IF left = 0
              THEN /\ propagateError(taskState_.errorMessage)
                   /\ taskState_' = [finished |-> << >>, numFailed |-> 0,
                                     errorMessage |-> IF error_ = NullChars THEN NullChars
                                                      ELSE taskState_.errorMessage]
              ELSE /\ pc' = "~ModuleGenerator.wait"
                   /\ taskState_' = [taskState_ EXCEPT !.finished = << >>, !.numFailed = 0]
                   /\ UNCHANGED error_
    /\ UNCHANGED << env_, globalVars, linkVars, poolVars, flagVars, cancelled_, wasmWorklist,
                    helperThreads, finishedLog >>

\* ------------------------------------------------------- cancellation
\* Another thread sets the shared flag; the generator reads it no more once
\* an operation has failed, the code segment is finished or it is destroyed.
Cancel ==
    /\ ~cancelled_
    /\ pc \notin {"failed", "finished", "destroyed", "~ModuleGenerator.drain",
                  "~ModuleGenerator.wait"}
    /\ cancelled_' = TRUE
    /\ UNCHANGED << env_, globalVars, linkVars, poolVars, flagVars, outstanding_, error_,
                    workerVars, pc >>

\* ----------------------------------------------------- helper threads
RemoveAt(s, i) == SubSeq(s, 1, i - 1) \o SubSeq(s, i + 1, Len(s))

\* Another generator puts a task of its own on the shared worklist.
OtherGeneratorStart ==
    /\ Len(SelectSeq(wasmWorklist, LAMBDA e : e.state = "other")) < MaxForeign
    /\ wasmWorklist' = Append(wasmWorklist, [state |-> "other", task |-> 0])
    /\ UNCHANGED << env_, globalVars, linkVars, poolVars, flagVars, outstanding_, error_, cancelled_,
                    helperThreads, taskState_, finishedLog, pc >>

\* A helper thread takes another generator's task.
HelperThreadTakeOther ==
    \E i \in DOMAIN wasmWorklist :
        /\ wasmWorklist[i].state = "other"
        /\ wasmWorklist' = RemoveAt(wasmWorklist, i)
        /\ UNCHANGED << env_, globalVars, linkVars, poolVars, flagVars, outstanding_, error_,
                        cancelled_, helperThreads, taskState_, finishedLog, pc >>

\* ExecuteCompileTask(task, &error): the task's output on success.
ExecuteCompileTask(task, outcome) ==
    IF outcome = "ok"
    THEN [tasks_ EXCEPT ![task] =
             [inputs |-> << >>, output |-> CompileFunctions(env_.funcDefs, @.inputs)]]
    ELSE tasks_

\* A helper thread takes one of this generator's tasks off the worklist and
\* runs ExecuteCompileTask on it; the result is local to the thread.
HelperThreadExecute ==
    \E i \in DOMAIN wasmWorklist, outcome \in CompileOutcomes :
        /\ wasmWorklist[i].state = "taskState_"
        /\ Cardinality(DOMAIN helperThreads) < maxWasmCompilationThreads
        /\ wasmWorklist' = RemoveAt(wasmWorklist, i)
        /\ tasks_' = ExecuteCompileTask(wasmWorklist[i].task, outcome)
        /\ helperThreads' =
               (wasmWorklist[i].task :>
                   [ok |-> outcome = "ok",
                    error |-> IF outcome = "error" THEN ErrorOf(wasmWorklist[i].task)
                              ELSE NullChars])
               @@ helperThreads
        /\ UNCHANGED << env_, globalVars, linkVars, freeTasks_, currentTask_, batchedBytecode_,
                        flagVars, outstanding_, error_, cancelled_, taskState_,
                        finishedLog, pc >>

\* A variant in which the notification is lost.
notify_one_Lost(at) == at

\* failedOrFinished.notify_one(): a coordinator waiting on the condition
\* variable goes back to the head of its loop.
notify_one(at) ==
    CASE at = "compileFuncDef.wait" -> "compileFuncDef.finishOutstandingTask"
      [] at = "finishFuncDefs.wait" -> "finishFuncDefs.finishOutstandingTask"
      [] at = "~ModuleGenerator.wait" -> "~ModuleGenerator.drain"
      [] OTHER -> at

\* A variant in which every failing worker stores its error.
reportTask_Overwrite(state, task, result, appended) ==
    IF ~result.ok \/ ~appended
    THEN [state EXCEPT !.numFailed = @ + 1, !.errorMessage = result.error]
    ELSE [state EXCEPT !.finished = Append(@, task)]

\* A variant in which a failing worker also puts its task on the finished
\* list.
reportTask_Both(state, task, result, appended) ==
    IF ~result.ok \/ ~appended
    THEN [state EXCEPT !.numFailed = @ + 1, !.finished = Append(@, task),
                       !.errorMessage = IF @ = NullChars THEN result.error ELSE @]
    ELSE [state EXCEPT !.finished = Append(@, task)]

\* What the locked block of ExecuteCompileTaskFromHelperThread does to the
\* task state, `appended' being whether finished.append(task) succeeded.
reportTask(state, task, result, appended) ==
    IF ~result.ok \/ ~appended
    THEN [state EXCEPT !.numFailed = @ + 1,
                       !.errorMessage = IF @ = NullChars THEN result.error ELSE @]
    ELSE [state EXCEPT !.finished = Append(@, task)]

\* The rest of ExecuteCompileTaskFromHelperThread, under the task-state lock.
HelperThreadReport ==
    \E task \in DOMAIN helperThreads, appended \in BOOLEAN :
        /\ taskState_' = reportTask(taskState_, task, helperThreads[task], appended)
        /\ finishedLog' = IF Len(taskState_'.finished) > Len(taskState_.finished)
                          THEN Append(finishedLog, tasks_[task].output.codeRanges[1].funcIndex)
                          ELSE finishedLog
        /\ helperThreads' = [t \in DOMAIN helperThreads \ {task} |-> helperThreads[t]]
        /\ pc' = notify_one(pc)
        /\ UNCHANGED << env_, globalVars, linkVars, poolVars, flagVars, outstanding_, error_,
                        cancelled_, wasmWorklist >>

\* ------------------------------------------------------- global data
\* ComputeByteAlignment: the padding that takes bytes to the next multiple
\* of alignment.
ComputeByteAlignment(bytes, alignment) == (alignment - (bytes % alignment)) % alignment

\* What an invalid CheckedInt<uint32_t> is modelled by.
Invalid == 0 - 1

\* A variant of the addition that wraps around.
CheckedAdd_Wrapping(a, b) ==
    IF a > UINT32_MAX - b THEN a - (UINT32_MAX - b) - 1 ELSE a + b

\* CheckedInt<uint32_t> += : the sum, or Invalid when it does not fit.
CheckedAdd(a, b) ==
    IF a = Invalid \/ a > UINT32_MAX - b THEN Invalid ELSE a + b

\* allocateGlobalBytes on a given globalDataLength: whether it succeeds, the
\* new globalDataLength and what it leaves in *globalDataOffset (Invalid
\* when it writes nothing there).
allocateGlobalBytes(globalDataLength, bytes, align) ==
    LET aligned == CheckedAdd(globalDataLength,
                              ComputeByteAlignment(globalDataLength, align))
        newGlobalDataLength == CheckedAdd(aligned, bytes)
    IN  IF aligned = Invalid
        THEN [ok |-> FALSE, globalDataLength |-> globalDataLength, offset |-> Invalid]
        ELSE IF newGlobalDataLength = Invalid
        THEN [ok |-> FALSE, globalDataLength |-> globalDataLength, offset |-> aligned]
        ELSE [ok |-> TRUE, globalDataLength |-> newGlobalDataLength, offset |-> aligned]

ValTypes ==
    {"I32", "I64", "F32", "F64", "I8x16", "I16x8", "I32x4", "F32x4", "B8x16", "B16x8",
     "B32x4"}

\* The switch of allocateGlobal.
GlobalWidth(type) ==
    CASE type \in {"I32", "F32"} -> 4
      [] type \in {"I64", "F64"} -> 8
      [] OTHER -> 16

\* The sizes and alignments the bounded calls are drawn from.
ByteSizes == {0, 1, 4, 8, 16, 1073741824, UINT32_MAX - 7, UINT32_MAX}

Alignments == {1, 4, 8, 16}

AllocateCall(type, bytes, align) ==
    LET result == allocateGlobalBytes(globalDataLength_, bytes, align)
    IN  /\ Len(allocated) < MaxGlobals
        /\ pc = "idle"
        /\ ~startedFuncDefs_
        /\ globalDataLength_' = result.globalDataLength
        /\ allocated' = Append(allocated,
                               [type |-> type, bytes |-> bytes, align |-> align,
                                ok |-> result.ok, offset |-> result.offset])
        /\ UNCHANGED << env_, linkVars, poolVars, flagVars, outstanding_, error_,
                        cancelled_, workerVars, pc >>

\* A call of allocateGlobalBytes, as init() makes for tables and imports.
AllocateGlobalBytes ==
    \E bytes \in ByteSizes, align \in Alignments : AllocateCall("bytes", bytes, align)

\* allocateGlobal for a mutable global of a given type.
AllocateGlobal ==
    \E type \in ValTypes : AllocateCall(type, GlobalWidth(type), GlobalWidth(type))

NextGlobals == AllocateGlobalBytes \/ AllocateGlobal

\* ------------------------------------------------------ specifications
Next ==
    \/ StartFuncDefs
    \/ CompileFuncDef
    \/ CompileFuncDefFinishOutstandingTask
    \/ CompileFuncDefLaunchBatchCompile
    \/ FinishFuncDefs
    \/ FinishFuncDefsLaunchBatchCompile
    \/ FinishFuncDefsFinishOutstandingTask
    \/ FinishModule
    \/ FinishTier2
    \/ Destructor
    \/ DestructorDrain
    \/ Cancel
    \/ OtherGeneratorStart
    \/ HelperThreadTakeOther
    \/ HelperThreadExecute
    \/ HelperThreadReport

Spec == Init /\ [][Next]_vars

\* A worker that has started a task goes on to report it, and a coordinator
\* that is in the destructor's loop and not waiting takes its turn.
SpecLive ==
    Init /\ [][Next]_vars /\ WF_vars(HelperThreadReport) /\ WF_vars(DestructorDrain)

\* The helper threads keep taking the generator's tasks off the worklist and
\* reporting them.
\* Every shape of export list, start function and element segment, over
\* functions without calls.
InitExports ==
    InitGenerator({FuncDef(1, 2, "None", 0, FALSE), FuncDef(2, 3, "None", 0, FALSE)},
                  {"Once", "Tier2"}, BOOLEAN, AllExports)

SpecExports == InitExports /\ [][Next]_vars

\* Functions that call function 0, short enough for two of them to be
\* patched in one pass or long enough for each to be patched in its own.
InitIslands ==
    InitGenerator({FuncDef(1, 2, "None", 0, FALSE), FuncDef(2, 3, "Func", 0, FALSE),
                   FuncDef(2, 5, "Func", 0, FALSE)},
                  {"Once", "Tier2"}, BOOLEAN, SmallExports)

SpecIslands == InitIslands /\ [][Next]_vars

\* Functions that fill a task of their own, so that in parallel mode the
\* tasks can complete in every order, next to one that does not, and two
\* shapes of module.
InitOrders ==
    InitGenerator({FuncDef(1, 2, "None", 0, FALSE), FuncDef(2, 2, "None", 0, FALSE),
                   FuncDef(2, 3, "Func", 0, FALSE)},
                  {"Once", "Tier2"}, BOOLEAN,
                  SmallExports \cup {ModuleExports(<< FuncExportOf(1) >>, << 0 >>,
                                                   FALSE, << >>)})

SpecOrders == InitOrders /\ [][Next]_vars

\* Functions that end in a breakpoint, an enter-frame or a leave-frame call
\* site, near enough to share a debug-trap island or too far for that.
InitDebug ==
    InitGenerator({FuncDef(1, 2, "Breakpoint", 0, FALSE),
                   FuncDef(2, 3, "EnterFrame", 0, FALSE),
                   FuncDef(2, 5, "LeaveFrame", 0, FALSE)},
                  {"Once", "Tier2"}, BOOLEAN, SmallExports)

SpecDebug == InitDebug /\ [][Next]_vars

\* Functions that end in a call to a trap exit, of one trap or the other,
\* one of them with a trap far jump of its own in its code.
InitTraps ==
    InitGenerator({FuncDef(1, 2, "TrapExit", 0, FALSE), FuncDef(1, 2, "TrapExit", 1, FALSE),
                   FuncDef(2, 3, "TrapExit", 0, TRUE)},
                  {"Once", "Tier2"}, BOOLEAN, SmallExports)

SpecTraps == InitTraps /\ [][Next]_vars

\* The calls init() makes to lay out the global data, before any function
\* is compiled.
InitGlobals ==
    InitGenerator({FuncDef(1, 2, "None", 0, FALSE)}, {"Once"}, {FALSE}, SmallExports)

SpecGlobals == InitGlobals /\ [][NextGlobals]_vars

InitFair ==
    InitGenerator({FuncDef(1, 2, "None", 0, FALSE), FuncDef(2, 3, "Func", 0, FALSE)},
                  {"Once", "Tier2"}, BOOLEAN, SmallExports)

SpecFair ==
    /\ InitFair /\ [][Next]_vars
    /\ WF_vars(HelperThreadExecute) /\ WF_vars(HelperThreadReport)

\* ------------------------------------------------------------ claims
IsIsland(offset) ==
    \E i \in DOMAIN metadataTier_.codeRanges :
        /\ metadataTier_.codeRanges[i].kind = "FarJumpIsland"
        /\ metadataTier_.codeRanges[i].begin = offset

\* The Func call sites the patcher has visited and patched to an island.
IslandCallSites ==
    {i \in 1 .. lastPatchedCallSite_ :
        /\ metadataTier_.callSites[i].kind = "Func"
        /\ IsIsland(masm_.calls[metadataTier_.callSites[i].returnAddressOffset])}

\* C1: every Func call site that linkCallSites does not patch directly is
\* patched to a far-jump island that begins within branchRange of the call
\* site's return-address offset, and once finishLinking has run the island's
\* far jump targets the entry of the callee.
C1_IslandInRangeOfCaller ==
    \A i \in IslandCallSites :
        LET callerOffset == metadataTier_.callSites[i].returnAddressOffset
            island == masm_.calls[callerOffset]
            callee == callSiteTargets_[i].funcIndex
        IN  /\ InRange(callerOffset, island)
            /\ pc = "finished" =>
                   /\ [funcIndex |-> callee, jump |-> island] \in
                          {callFarJumps_[k] : k \in DOMAIN callFarJumps_}
                   /\ island \in DOMAIN masm_.farJumps
                   /\ masm_.farJumps[island] = funcNormalEntry(funcCodeRange(G, callee))

\* The first function of each task output linked so far, in linking order
\* (the stubs, linked last, hold no function).
LinkedJobs ==
    LET funcs == SelectSeq(linked, LAMBDA r : r.code.codeRanges[1].kind = "Function")
    IN  [i \in DOMAIN funcs |-> funcs[i].code.codeRanges[1].funcIndex]

\* Where a task output stands in the order of additions to the finished list.
FinishedPosition(job) == CHOOSE k \in DOMAIN finishedLog : finishedLog[k] = job

\* C2 (as stated): in parallel mode finishTask runs for the tasks in the
\* order in which they were added to the finished list.
C2_LinkedInCompletionOrder ==
    parallel_ =>
        \A i, j \in DOMAIN LinkedJobs :
            i < j => FinishedPosition(LinkedJobs[i]) < FinishedPosition(LinkedJobs[j])

\* C2 (amended): in parallel mode finishTask runs only for a task that is on
\* the finished list, and each finishOutstandingTask takes the task added to
\* the list most recently among those still on it, leaving the others there.
C2_LinksMostRecentlyFinished ==
    [][(parallel_ /\ pc # "idle" /\ Len(linked') > Len(linked)) =>
           /\ taskState_.finished # << >>
           /\ Last(linked').code = tasks_[Last(taskState_.finished)].output
           /\ \A k \in DOMAIN finishedLog :
                  finishedLog[k] \in {LinkedJobs'[i] : i \in DOMAIN LinkedJobs'}
                      \/ k < FinishedPosition(Last(LinkedJobs'))
           /\ taskState_'.finished = Front(taskState_.finished)]_vars

\* Two tasks were on the finished list together and the one added second was
\* linked first.
C2_Witness ==
    /\ parallel_
    /\ \E i, j \in DOMAIN LinkedJobs :
           i < j /\ FinishedPosition(LinkedJobs[i]) > FinishedPosition(LinkedJobs[j])

\* C3: compileFuncDef is inside finishOutstandingTask only in parallel mode,
\* with no current task and an empty free list, and then every task of the
\* pool is in flight: outstanding_ is the pool size, 2 x maxWasmCompilationThreads.
C3_BlocksOnlyWhenPoolInFlight ==
    pc \in {"compileFuncDef.finishOutstandingTask", "compileFuncDef.wait"} =>
        /\ parallel_
        /\ currentTask_ = 0
        /\ freeTasks_ = << >>
        /\ outstanding_ = Len(tasks_)
        /\ outstanding_ = 2 * maxWasmCompilationThreads

\* compileFuncDef is blocked on the condition variable.
C3_Witness ==
    /\ pc = "compileFuncDef.wait"
    /\ outstanding_ = 2 * maxWasmCompilationThreads

\* The coordinator's step out of a turn of finishOutstandingTask.
FinishOutstandingTaskStep ==
    /\ pc \in {"compileFuncDef.finishOutstandingTask", "finishFuncDefs.finishOutstandingTask"}
    /\ pc' # pc

\* C4: once a worker has failed, a turn of finishOutstandingTask returns
\* failure and links nothing, also when finished tasks are available, and
\* finishedFuncDefs_ is never set.
C4_FailureAtNextSyncPoint ==
    [][taskState_.numFailed > 0 =>
           /\ ~finishedFuncDefs_'
           /\ FinishOutstandingTaskStep =>
                  /\ pc' = "failed"
                  /\ UNCHANGED << linkVars, outstanding_, taskState_ >>]_vars

\* finishOutstandingTask has returned failure with a finished task at hand.
C4_Witness ==
    /\ pc = "failed"
    /\ parallel_
    /\ currentTask_ = 0
    /\ ~cancelled_
    /\ taskState_.numFailed > 0
    /\ taskState_.finished # << >>

\* A worker's step that reports a failure.
WorkerFails == taskState_'.numFailed > taskState_.numFailed

\* C5 (as stated): once a worker has failed no later failing worker changes
\* the shared errorMessage.
C5_FirstFailureKept ==
    [][(taskState_.numFailed > 0 /\ WorkerFails) =>
           taskState_'.errorMessage = taskState_.errorMessage]_vars

\* C5 (amended): a failing worker stores its error only when the shared
\* errorMessage is empty, so a non-empty errorMessage is never replaced and
\* errorMessage holds the error of the first failing worker that had one.
C5_FirstNonEmptyErrorKept ==
    [][WorkerFails =>
           \E task \in DOMAIN helperThreads \ DOMAIN helperThreads' :
               /\ taskState_'.numFailed = taskState_.numFailed + 1
               /\ taskState_'.errorMessage =
                      IF taskState_.errorMessage # NullChars
                      THEN taskState_.errorMessage
                      ELSE helperThreads[task].error]_vars

\* Two workers have failed and the shared errorMessage is set.
C5_Witness ==
    /\ taskState_.numFailed >= 2
    /\ taskState_.errorMessage # NullChars

\* This generator's tasks that are on the worklist or with a helper thread.
OwnWorklistEntries == SelectSeq(wasmWorklist, LAMBDA e : e.state = "taskState_")

InDestructor == pc \in {"~ModuleGenerator.drain", "~ModuleGenerator.wait"}

\* C6: a destructor that found tasks outstanding completes, given that every
\* started task reports; when it has completed outstanding_ is 0 and none of
\* the generator's tasks is on the worklist or with a worker; and while it
\* runs a started task leaves its worker only by reporting.
C6_DestructorDrains ==
    /\ InDestructor ~> (pc = "destroyed")
    /\ [](pc = "destroyed" =>
             /\ outstanding_ = 0
             /\ OwnWorklistEntries = << >>
             /\ helperThreads = << >>)
    /\ [][(InDestructor /\ helperThreads' # helperThreads) =>
             Len(taskState_'.finished) + taskState_'.numFailed =
                 Len(taskState_.finished) + taskState_.numFailed + 1]_vars

\* The generator was destroyed after a task that a worker finished and that
\* was never linked: the destructor drained it.
C6_Witness ==
    /\ pc = "destroyed"
    /\ parallel_
    /\ Len(finishedLog) > Len(LinkedJobs)

\* The destructor's first locked block, with tasks outstanding.
DestructorEraseStep ==
    /\ pc \in {"idle", "failed", "finished"}
    /\ pc' = "~ModuleGenerator.drain"

OtherWorklistEntries(worklist) == SelectSeq(worklist, LAMBDA e : e.state = "other")

AtCancellationCheck ==
    \/ /\ pc \in {"compileFuncDef.launchBatchCompile", "finishFuncDefs.launchBatchCompile"}
       /\ pc' # pc
    \/ /\ pc = "idle" /\ finishedFuncDefs_ /\ env_.mode = "Tier2"
       /\ pc' \in {"failed", "finished"}

\* C8: at a cancellation check point with the flag set the call fails and
\* leaves outstanding_, currentTask_, the tasks, the worklist, the master
\* buffer and the metadata as they were.
C8_CancelledFailsUntouched ==
    [][(cancelled_ /\ AtCancellationCheck) =>
           /\ pc' = "failed"
           /\ UNCHANGED << outstanding_, poolVars, linkVars, wasmWorklist, helperThreads,
                           taskState_, error_ >>]_vars

\* launchBatchCompile has failed on the flag, with a batch ready and other
\* tasks in flight.
C8_Witness ==
    /\ pc = "failed"
    /\ cancelled_
    /\ currentTask_ # 0
    /\ outstanding_ > 0

InFinishFuncDefs ==
    pc \in {"finishFuncDefs.launchBatchCompile", "finishFuncDefs.finishOutstandingTask",
            "finishFuncDefs.wait"}

\* C9: the flags startedFuncDefs_ and finishedFuncDefs_ are never reset and
\* finishedFuncDefs_ implies startedFuncDefs_; startFuncDefs (which creates
\* the task pool) runs only with startedFuncDefs_ unset, so at most once;
\* compileFuncDef and finishFuncDefs run only between startFuncDefs and the
\* success of finishFuncDefs; the code segment is finished only after it.
C9_StrictLifecycle ==
    [][/\ startedFuncDefs_ => startedFuncDefs_'
       /\ finishedFuncDefs_ => finishedFuncDefs_'
       /\ finishedFuncDefs_' => startedFuncDefs_'
       /\ Len(tasks_') # Len(tasks_) => ~startedFuncDefs_ /\ startedFuncDefs_'
       /\ numFuncDefs_' # numFuncDefs_ => startedFuncDefs_ /\ ~finishedFuncDefs_
       /\ (InFinishFuncDefs' \/ finishedFuncDefs_' # finishedFuncDefs_) =>
              startedFuncDefs_ /\ ~finishedFuncDefs_
       /\ (pc' = "finished" /\ pc # "finished") => finishedFuncDefs_]_vars

\* The whole lifecycle has run, every function definition compiled.
C9_Witness ==
    /\ pc = "finished"
    /\ startedFuncDefs_
    /\ finishedFuncDefs_
    /\ numFuncDefs_ = NumFuncs

\* The entries a linkCompiledCode call appended to a side table: the last
\* `count' entries below index `upTo', in the order of the artifact.
Appended(table, upTo, count, i) == table[upTo - count + i]

SymbolicAccessesTo(code, target) ==
    SelectSeq(code.symbolicAccesses, LAMBDA a : a.target = target)

\* C10: for every artifact linkCompiledCode has appended, with B the aligned
\* size of the master buffer at which its bytes begin, each entry it added to
\* a side table is the artifact's entry with every offset shifted by B.
C10_OffsetsRebased ==
    \A n \in DOMAIN linked :
        LET r == linked[n]
            code == r.code
            B == r.size - code.bytesLength
        IN  /\ B % CodeAlignment = 0
            /\ n > 1 => B >= linked[n - 1].size
            /\ \A i \in DOMAIN code.codeRanges :
                   LET cr == Appended(metadataTier_.codeRanges, r.codeRanges,
                                      Len(code.codeRanges), i)
                   IN  /\ cr.begin = B + code.codeRanges[i].begin
                       /\ cr.end = B + code.codeRanges[i].end
                       /\ cr.kind = code.codeRanges[i].kind
            /\ \A i \in DOMAIN code.callSites :
                   Appended(metadataTier_.callSites, r.callSites, Len(code.callSites),
                            i).returnAddressOffset
                       = B + code.callSites[i].returnAddressOffset
            /\ \A i \in DOMAIN code.trapFarJumps :
                   Appended(trapFarJumps_, r.trapFarJumps, Len(code.trapFarJumps), i).jump
                       = B + code.trapFarJumps[i].jump
            /\ \A i \in DOMAIN code.callFarJumps :
                   Appended(callFarJumps_, r.callFarJumps, Len(code.callFarJumps), i).jump
                       = B + code.callFarJumps[i].jump
            /\ \A i \in DOMAIN code.memoryAccesses :
                   Appended(metadataTier_.memoryAccesses, r.memoryAccesses,
                            Len(code.memoryAccesses), i).insnOffset
                       = B + code.memoryAccesses[i].insnOffset
            /\ \A t \in SymbolicAddresses :
                   \A i \in DOMAIN SymbolicAccessesTo(code, t) :
                       Appended(linkDataTier_.symbolicLinks[t], r.symbolicLinks[t],
                                Len(SymbolicAccessesTo(code, t)), i)
                           = B + SymbolicAccessesTo(code, t)[i].patchAt
            /\ \A i \in DOMAIN code.codeLabels :
                   LET link == Appended(linkDataTier_.internalLinks, r.internalLinks,
                                        Len(code.codeLabels), i)
                   IN  /\ link.patchAtOffset = B + code.codeLabels[i].patchAt
                       /\ link.targetOffset = B + code.codeLabels[i].target

\* The module is finished and an artifact with an entry in every side table
\* was linked at a non-zero offset, after an artifact of unaligned length.
C10_Witness ==
    /\ pc = "finished"
    /\ \E n \in DOMAIN linked :
           /\ n > 1
           /\ linked[n].size - linked[n].code.bytesLength > linked[n - 1].size
           /\ linked[n].code.memoryAccesses # << >>
           /\ linked[n].code.codeLabels # << >>
           /\ linked[n].code.symbolicAccesses # << >>
           /\ linked[n].code.callSites # << >>

\* C11: metadataTier.codeRanges is sorted: each code range, the far-jump
\* islands included, begins at or after the end of the one before it.
C11_CodeRangesSorted ==
    \A i \in DOMAIN metadataTier_.codeRanges :
        i > 1 => metadataTier_.codeRanges[i].begin >= metadataTier_.codeRanges[i - 1].end

\* Tasks were linked out of the order of their functions and an island
\* stands between two task outputs.
C11_Witness ==
    /\ pc = "finished"
    /\ \E i, j \in DOMAIN metadataTier_.codeRanges :
           /\ i < j
           /\ metadataTier_.codeRanges[i].kind = "Function"
           /\ metadataTier_.codeRanges[j].kind = "Function"
           /\ metadataTier_.codeRanges[i].funcIndex > metadataTier_.codeRanges[j].funcIndex
    /\ \E i \in DOMAIN metadataTier_.codeRanges :
           /\ metadataTier_.codeRanges[i].kind = "FarJumpIsland"
           /\ i < Len(metadataTier_.codeRanges)
           /\ metadataTier_.codeRanges[i + 1].kind = "Function"

\* C12: metadataTier.callSites is non-decreasing in returnAddressOffset.
C12_CallSitesSorted ==
    \A i \in DOMAIN metadataTier_.callSites :
        i > 1 => metadataTier_.callSites[i].returnAddressOffset
                     >= metadataTier_.callSites[i - 1].returnAddressOffset

\* Three call sites, of tasks that were linked out of the order of their
\* functions.
C12_Witness ==
    /\ parallel_
    /\ Len(metadataTier_.callSites) >= 3
    /\ \E i, j \in DOMAIN LinkedJobs : i < j /\ LinkedJobs[i] > LinkedJobs[j]

\* The Func call sites the patcher has patched straight to a callee.
DirectCallSites ==
    {i \in 1 .. lastPatchedCallSite_ :
        /\ metadataTier_.callSites[i].kind = "Func"
        /\ ~IsIsland(masm_.calls[metadataTier_.callSites[i].returnAddressOffset])}

Distance(a, b) == IF a < b THEN b - a ELSE a - b

\* C13: a Func call site patched directly is patched to the normal entry of
\* its callee, and that entry is less than branchRange =
\* min(jumpThreshold, JumpImmediateRange) away from its return address.
C13_DirectCallsInRange ==
    \A i \in DirectCallSites :
        LET callerOffset == metadataTier_.callSites[i].returnAddressOffset
            calleeOffset == funcNormalEntry(funcCodeRange(G, callSiteTargets_[i].funcIndex))
        IN  /\ masm_.calls[callerOffset] = calleeOffset
            /\ Distance(callerOffset, calleeOffset) < jumpThreshold
            /\ Distance(callerOffset, calleeOffset) < JumpImmediateRange

\* One call is patched directly and another, to the same callee, through an
\* island.
C13_Witness ==
    /\ DirectCallSites # {}
    /\ IslandCallSites # {}

\* C14: once finishLinking has run, lastPatchedCallSite_ is the number of
\* call sites, and every Func call site is patched to its callee's entry or
\* to an island and every TrapExit call site to an island.
C14_AllCallSitesPatched ==
    pc = "finished" =>
        /\ lastPatchedCallSite_ = Len(metadataTier_.callSites)
        /\ Len(callSiteTargets_) = Len(metadataTier_.callSites)
        /\ \A i \in DOMAIN metadataTier_.callSites :
               LET callSite == metadataTier_.callSites[i]
                   callerOffset == callSite.returnAddressOffset
               IN  /\ callSite.kind = "Func" =>
                          /\ callerOffset \in DOMAIN masm_.calls
                          /\ \/ IsIsland(masm_.calls[callerOffset])
                             \/ masm_.calls[callerOffset] = funcNormalEntry(
                                    funcCodeRange(G, callSiteTargets_[i].funcIndex))
                   /\ callSite.kind = "TrapExit" =>
                          /\ callerOffset \in DOMAIN masm_.calls
                          /\ IsIsland(masm_.calls[callerOffset])

\* A finished module with a Func and a TrapExit call site.
C14_Witness ==
    /\ pc = "finished"
    /\ \E i, j \in DOMAIN metadataTier_.callSites :
           /\ metadataTier_.callSites[i].kind = "Func"
           /\ metadataTier_.callSites[j].kind = "TrapExit"

\* The offsets noteCodeRange records for the stubs, by code-range kind (and
\* by trap for the trap exits).
StubSlots ==
    {<< "TrapExit", t >> : t \in Traps}
    \cup {<< k, "Unreachable" >> :
            k \in {"DebugTrap", "OutOfBoundsExit", "UnalignedExit", "Interrupt"}}

StubOffset(slot) ==
    CASE slot[1] = "TrapExit" -> trapCodeOffsets_[slot[2]]
      [] slot[1] = "DebugTrap" -> debugTrapCodeOffset_
      [] slot[1] = "OutOfBoundsExit" -> linkDataTier_.outOfBoundsOffset
      [] slot[1] = "UnalignedExit" -> linkDataTier_.unalignedAccessOffset
      [] slot[1] = "Interrupt" -> linkDataTier_.interruptOffset

\* The code ranges of a table that a slot is recorded from.
RangesOfSlot(codeRanges, slot) ==
    {i \in DOMAIN codeRanges :
        /\ codeRanges[i].kind = slot[1]
        /\ slot[1] = "TrapExit" => codeRanges[i].trap = slot[2]}

C16_FuncToCodeRangeStable ==
    /\ [](\A i \in Funcs :
             funcToCodeRange_[i] # BAD_CODE_RANGE =>
                 /\ funcToCodeRange_[i] < Len(metadataTier_.codeRanges)
                 /\ metadataTier_.codeRanges[funcToCodeRange_[i] + 1].kind = "Function"
                 /\ metadataTier_.codeRanges[funcToCodeRange_[i] + 1].funcIndex = i)
    /\ [][\A i \in Funcs :
             funcToCodeRange_[i] # BAD_CODE_RANGE =>
                 funcToCodeRange_'[i] = funcToCodeRange_[i]]_vars

\* A function's code range stands after an island and after the range of a
\* function of higher index.
C16_Witness ==
    \E i, j \in Funcs :
        /\ i < j
        /\ funcToCodeRange_[j] < funcToCodeRange_[i]
        /\ funcToCodeRange_[i] # BAD_CODE_RANGE
        /\ \E r \in 1 .. funcToCodeRange_[i] :
               metadataTier_.codeRanges[r].kind = "FarJumpIsland"

InCompileFuncDef ==
    pc \in {"compileFuncDef.finishOutstandingTask", "compileFuncDef.wait",
            "compileFuncDef.launchBatchCompile"}

ExplicitFuncExports ==
    {f \in Funcs : \E i \in DOMAIN env_.module.exports :
        /\ env_.module.exports[i].kind = "Function"
        /\ env_.module.exports[i].funcIndex = f}

StartFunc == {f \in Funcs : env_.module.startFuncIndex = << f >>}

ExternalTableElems ==
    {f \in Funcs : \E k \in DOMAIN env_.module.elemSegments :
        LET seg == env_.module.elemSegments[k]
        IN  /\ env_.module.tables[seg.tableIndex + 1].external
            /\ \E i \in DOMAIN seg.elemFuncIndices : seg.elemFuncIndices[i] = f}

InternalTableElems ==
    {f \in Funcs : \E k \in DOMAIN env_.module.elemSegments :
        LET seg == env_.module.elemSegments[k]
        IN  /\ ~env_.module.tables[seg.tableIndex + 1].external
            /\ \E i \in DOMAIN seg.elemFuncIndices : seg.elemFuncIndices[i] = f}

\* C18: once the module is finished, funcExports is strictly increasing in
\* funcIndex and its function indices are exactly the explicit function
\* exports, the start function if any, and the elements of the segments of
\* external tables.
C18_FuncExportsSortedAndExact ==
    pc = "finished" =>
        LET funcExports == metadataTier_.funcExports
        IN  /\ \A i, j \in DOMAIN funcExports :
                  i < j => funcExports[i].funcIndex < funcExports[j].funcIndex
            /\ {funcExports[i].funcIndex : i \in DOMAIN funcExports}
                   = ExplicitFuncExports \cup StartFunc \cup ExternalTableElems

\* A function exported twice next to a memory export, an external table with
\* a repeated element, and an internal table whose element stays unexported.
C18_Witness ==
    /\ pc = "finished"
    /\ Len(env_.module.exports) = 3
    /\ ExternalTableElems \ ExplicitFuncExports # {}
    /\ InternalTableElems \ {metadataTier_.funcExports[i].funcIndex :
                                i \in DOMAIN metadataTier_.funcExports} # {}
    /\ Len(metadataTier_.funcExports) = 2

\* The callFarJumps_ entries a step's linkCallSites pass appends: the step's
\* new entries but for those of the code it links.
PassCallFarJumps ==
    LET code == IF Len(linked') > Len(linked)
                THEN Len(Last(linked').code.callFarJumps) ELSE 0
    IN  (Len(callFarJumps_) + 1) .. (Len(callFarJumps_') - code)

PassCodeRanges ==
    (Len(metadataTier_.codeRanges) + 1) .. Len(metadataTier_.codeRanges')

PassCallSites == (lastPatchedCallSite_ + 1) .. lastPatchedCallSite_'

\* C20: one linkCallSites pass appends at most one callFarJumps entry per
\* callee funcIndex, each with one FarJumpIsland code range of its own, and
\* every Func call site the pass patches to an island is patched to the
\* island this pass appended for its callee, never to one of an earlier pass.
C20_OneIslandPerCalleePerPass ==
    [][/\ \A a, b \in PassCallFarJumps :
             a # b => callFarJumps_'[a].funcIndex # callFarJumps_'[b].funcIndex
       /\ \A a \in PassCallFarJumps :
             Cardinality({r \in PassCodeRanges :
                 /\ metadataTier_'.codeRanges[r].kind = "FarJumpIsland"
                 /\ metadataTier_'.codeRanges[r].begin = callFarJumps_'[a].jump}) = 1
       /\ \A i \in PassCallSites :
             LET target == masm_'.calls[metadataTier_'.callSites[i].returnAddressOffset]
             IN  (/\ metadataTier_'.callSites[i].kind = "Func"
                  /\ \E r \in DOMAIN metadataTier_'.codeRanges :
                        /\ metadataTier_'.codeRanges[r].kind = "FarJumpIsland"
                        /\ metadataTier_'.codeRanges[r].begin = target)
                 => \E a \in PassCallFarJumps :
                       /\ callFarJumps_'[a].funcIndex = callSiteTargets_[i].funcIndex
                       /\ callFarJumps_'[a].jump = target]_vars

\* Two call sites of the same callee share one island.
C20_Witness ==
    \E i, j \in IslandCallSites :
        /\ i # j
        /\ callSiteTargets_[i].funcIndex = callSiteTargets_[j].funcIndex
        /\ masm_.calls[metadataTier_.callSites[i].returnAddressOffset]
               = masm_.calls[metadataTier_.callSites[j].returnAddressOffset]

\* Two passes have each appended an island for the same callee.
LaterPassOwnIsland ==
    \E a, b \in DOMAIN callFarJumps_ :
        /\ a # b
        /\ callFarJumps_[a].funcIndex = callFarJumps_[b].funcIndex
        /\ IsIsland(callFarJumps_[a].jump) /\ IsIsland(callFarJumps_[b].jump)

\* The generator right after construction, as a record.
NewGenerator ==
    [masm |-> [size |-> 0, calls |-> << >>, farJumps |-> << >>],
     metadataTier |-> [codeRanges |-> << >>, callSites |-> << >>,
                       memoryAccesses |-> << >>, debugTrapFarJumpOffsets |-> << >>,
                       funcExports |-> << >>],
     linkDataTier |-> [internalLinks |-> << >>,
                       symbolicLinks |-> [t \in SymbolicAddresses |-> << >>],
                       outOfBoundsOffset |-> 0, unalignedAccessOffset |-> 0,
                       interruptOffset |-> 0],
     funcToCodeRange |-> [f \in Funcs |-> BAD_CODE_RANGE],
     callSiteTargets |-> << >>, callFarJumps |-> << >>, trapFarJumps |-> << >>,
     debugTrapFarJumps |-> << >>, trapCodeOffsets |-> [t \in Traps |-> 0],
     debugTrapCodeOffset |-> 0, lastPatchedCallSite |-> 0,
     startOfUnpatchedCallsites |-> 0, visited |-> << >>]

\* The run in which the tasks, one per function, are linked in the order of
\* the function indices, and the module is then finished.
RECURSIVE LinkInOrder(_, _, _)
LinkInOrder(g, env, funcIndex) ==
    IF funcIndex = NumFuncs THEN g
    ELSE LinkInOrder(finishTaskLink(g, CompileFunctions(env.funcDefs, << funcIndex >>)),
                     env, funcIndex + 1)

InOrderRun(env) ==
    LET exported == initExportedFuncs(env.module) \cup elemExportedFuncs(env.module)
        g == LinkInOrder(NewGenerator, env, 0)
    IN  finishLinking(linkCompiledCode(
            [g EXCEPT !.metadataTier.funcExports = funcExportsOf(exported)],
            GenerateStubs))

OneTaskPerFunction ==
    \A f \in Funcs : env_.funcDefs[f].bytecodeLength > wasmBatchThreshold

NumIslands(codeRanges) ==
    Cardinality({i \in DOMAIN codeRanges : codeRanges[i].kind = "FarJumpIsland"})

\* A code range without its place in the module.
Shape(codeRange) ==
    [kind |-> codeRange.kind, funcIndex |-> codeRange.funcIndex,
     trap |-> codeRange.trap, length |-> codeRange.end - codeRange.begin]

CompiledShapes(codeRanges) ==
    {Shape(codeRanges[i]) :
        i \in {j \in DOMAIN codeRanges : codeRanges[j].kind # "FarJumpIsland"}}

\* C19 (as stated): a finished run has as many far-jump islands, and the
\* same export table, as the run on the same inputs whose tasks are linked
\* in index order.
C19_SameIslandsInEveryOrder ==
    (pc = "finished" /\ OneTaskPerFunction) =>
        /\ NumIslands(metadataTier_.codeRanges)
               = NumIslands(InOrderRun(env_).metadataTier.codeRanges)
        /\ metadataTier_.funcExports = InOrderRun(env_).metadataTier.funcExports

\* C19 (amended): a finished run has the export table of the run on the
\* same inputs whose tasks are linked in index order, and the same function
\* and stub code ranges up to their place in the module, each function's
\* funcToCodeRange entry designating its own range; a serial run is that
\* run. The number of far-jump islands is left free.
C19_SameUpToLayout ==
    (pc = "finished" /\ OneTaskPerFunction) =>
        LET inOrder == InOrderRun(env_)
            codeRanges == metadataTier_.codeRanges
        IN  /\ metadataTier_.funcExports = inOrder.metadataTier.funcExports
            /\ CompiledShapes(codeRanges) = CompiledShapes(inOrder.metadataTier.codeRanges)
            /\ Len(codeRanges) - NumIslands(codeRanges)
                   = Len(inOrder.metadataTier.codeRanges)
                         - NumIslands(inOrder.metadataTier.codeRanges)
            /\ \A f \in Funcs :
                  /\ funcToCodeRange_[f] # BAD_CODE_RANGE
                  /\ Shape(funcCodeRange(G, f)) = Shape(funcCodeRange(inOrder, f))
                  /\ funcCodeRange(G, f).kind = "Function"
                  /\ funcCodeRange(G, f).funcIndex = f
            /\ ~parallel_ => G = inOrder

\* A finished parallel run whose tasks were linked out of index order, with
\* another number of islands than the run in index order.
C19_Witness ==
    /\ pc = "finished" /\ OneTaskPerFunction /\ parallel_
    /\ \E f1, f2 \in Funcs : f1 < f2 /\ funcToCodeRange_[f2] < funcToCodeRange_[f1]
    /\ NumIslands(metadataTier_.codeRanges)
           # NumIslands(InOrderRun(env_).metadataTier.codeRanges)

InLaunchBatchCompile ==
    pc \in {"compileFuncDef.launchBatchCompile", "finishFuncDefs.launchBatchCompile"}

\* The functions whose code is in the master buffer, in the order of their
\* code ranges.
LinkedFunctions(codeRanges) ==
    LET funcs == SelectSeq(codeRanges, LAMBDA r : r.kind = "Function")
    IN  [i \in DOMAIN funcs |-> funcs[i].funcIndex]

\* C21: in serial mode outstanding_ is 0 throughout; a launchBatchCompile
\* that succeeds has put the code of every input of the task in the master
\* buffer and the task, emptied, back on the free list; and the functions
\* are linked in the order of the compileFuncDef calls.
C21_SerialLaunchIsSynchronous ==
    /\ [](~parallel_ => outstanding_ = 0 /\ OwnWorklistEntries = << >>)
    /\ [](~parallel_ =>
            LET funcs == LinkedFunctions(metadataTier_.codeRanges)
            IN  \A i \in DOMAIN funcs : funcs[i] = i - 1)
    /\ [][(~parallel_ /\ InLaunchBatchCompile /\ pc' # pc /\ pc' # "failed") =>
             /\ \A k \in DOMAIN tasks_[currentTask_].inputs :
                   LET f == tasks_[currentTask_].inputs[k]
                   IN  /\ funcToCodeRange_[f] = BAD_CODE_RANGE
                       /\ funcToCodeRange_'[f] # BAD_CODE_RANGE
                       /\ metadataTier_'.codeRanges[funcToCodeRange_'[f] + 1].funcIndex = f
                       /\ metadataTier_'.codeRanges[funcToCodeRange_'[f] + 1].end
                              <= masm_'.size
             /\ masm_'.size > masm_.size
             /\ currentTask_' = 0
             /\ Last(freeTasks_') = currentTask_
             /\ tasks_'[currentTask_] = EmptyTask]_vars

\* A serial generator that has launched two tasks, the first with two
\* functions batched.
C21_Witness ==
    /\ ~parallel_ /\ startedFuncDefs_
    /\ pc = "idle"
    /\ Len(linked) = 2
    /\ LinkedFunctions(metadataTier_.codeRanges) = << 0, 1, 2 >>

\* C22: an error message a worker has recorded stays in the shared task
\* state until the destructor completes, and the completing destructor
\* leaves it in the caller's error slot unless the slot holds an error
\* already, which it leaves as it is; the slot is not touched afterwards.
C22_ErrorSurvivesDestruction ==
    [][/\ taskState_.errorMessage # NullChars =>
             \/ taskState_'.errorMessage = taskState_.errorMessage
             \/ pc' = "destroyed" /\ error_' # NullChars
       /\ (pc # "destroyed" /\ pc' = "destroyed") =>
             error_' = IF error_ # NullChars THEN error_ ELSE taskState_.errorMessage
       /\ pc = "destroyed" => error_' = error_]_vars

\* A generator destroyed after an early return from compileFuncDef or
\* finishFuncDefs, whose slot holds the error message a worker recorded.
C22_Witness ==
    /\ pc = "destroyed"
    /\ parallel_
    /\ ~finishedFuncDefs_
    /\ error_ # NullChars

RECURSIVE BytecodeSum(_)
BytecodeSum(inputs) ==
    IF inputs = << >> THEN 0
    ELSE env_.funcDefs[Head(inputs)].bytecodeLength + BytecodeSum(Tail(inputs))

\* compileFuncDef has added a function to the inputs of the current task.
InputAdded ==
    /\ currentTask_' # 0
    /\ Len(tasks_'[currentTask_'].inputs) = Len(tasks_[currentTask_'].inputs) + 1

\* C23: compileFuncDef goes on to launchBatchCompile exactly when the
\* bytecode lengths of the current task's inputs sum to more than the
\* threshold; between operations batchedBytecode_ is that sum and at most
\* the threshold; a launch that succeeds leaves it 0 with no current task.
C23_BatchedUpToThreshold ==
    /\ [](pc = "idle" =>
            /\ batchedBytecode_ <= wasmBatchThreshold
            /\ batchedBytecode_ = IF currentTask_ = 0 THEN 0
                                  ELSE BytecodeSum(tasks_[currentTask_].inputs))
    /\ [][InputAdded =>
             /\ batchedBytecode_' = BytecodeSum(tasks_'[currentTask_'].inputs)
             /\ pc' = IF batchedBytecode_' > wasmBatchThreshold
                      THEN "compileFuncDef.launchBatchCompile" ELSE "idle"]_vars
    /\ [][(InLaunchBatchCompile /\ pc' # pc /\ pc' # "failed") =>
             batchedBytecode_' = 0 /\ currentTask_' = 0]_vars

\* A task that holds one function whose bytecode is just at the threshold,
\* after a task with two such functions has been launched.
C23_Witness ==
    /\ pc = "idle"
    /\ currentTask_ # 0
    /\ batchedBytecode_ = wasmBatchThreshold
    /\ tasks_[currentTask_].inputs = << 2 >>
    /\ funcToCodeRange_[0] # BAD_CODE_RANGE /\ funcToCodeRange_[1] # BAD_CODE_RANGE

DebugKinds == {"Breakpoint", "EnterFrame", "LeaveFrame"}

\* The number of debugTrapFarJumpOffsets entries there are once the call
\* sites first .. last have been visited in order, when there were k before
\* and each debug call site that finds no entry, or the last one out of its
\* range, is followed by one more entry.
RECURSIVE DebugIslandsAfter(_, _, _, _, _)
DebugIslandsAfter(callSites, jumps, first, last, k) ==
    IF first > last THEN k
    ELSE IF /\ callSites[first].kind \in DebugKinds
            /\ \/ k = 0
               \/ k <= Len(jumps) /\
                  Distance(jumps[k], callSites[first].returnAddressOffset)
                      >= Min(jumpThreshold, JumpImmediateRange)
         THEN DebugIslandsAfter(callSites, jumps, first + 1, last, k + 1)
         ELSE DebugIslandsAfter(callSites, jumps, first + 1, last, k)

\* C24: a pass appends a debug-trap island exactly for the debug call sites
\* that find debugTrapFarJumpOffsets empty or its last entry out of range;
\* each island has one debugTrapFarJumpOffsets entry, one debugTrapFarJumps
\* entry and one FarJumpIsland code range; no debug call site is patched;
\* debugTrapFarJumpOffsets is in non-decreasing order.
C24_DebugTrapIslands ==
    /\ [][LET jumps == metadataTier_'.debugTrapFarJumpOffsets
              old == Len(metadataTier_.debugTrapFarJumpOffsets)
          IN  /\ SubSeq(jumps, 1, old) = metadataTier_.debugTrapFarJumpOffsets
              /\ DebugIslandsAfter(metadataTier_'.callSites, jumps,
                                   lastPatchedCallSite_ + 1, lastPatchedCallSite_', old)
                     = Len(jumps)
              /\ \A k \in (old + 1) .. Len(jumps) :
                    /\ debugTrapFarJumps_'[k] = jumps[k] + TlsReloadSize
                    /\ Cardinality({r \in PassCodeRanges :
                           /\ metadataTier_'.codeRanges[r].kind = "FarJumpIsland"
                           /\ metadataTier_'.codeRanges[r].begin = jumps[k]}) = 1]_vars
    /\ [](LET jumps == metadataTier_.debugTrapFarJumpOffsets
          IN  /\ Len(debugTrapFarJumps_) = Len(jumps)
              /\ \A i, j \in DOMAIN jumps : i < j => jumps[i] <= jumps[j]
              /\ \A i \in DOMAIN metadataTier_.callSites :
                    metadataTier_.callSites[i].kind \in DebugKinds =>
                        metadataTier_.callSites[i].returnAddressOffset
                            \notin DOMAIN masm_.calls)

\* A finished module with three debug call sites and two debug-trap
\* islands: one call site found the last island in range, one did not.
C24_Witness ==
    /\ pc = "finished"
    /\ Len(metadataTier_.debugTrapFarJumpOffsets) = 2
    /\ Cardinality({i \in DOMAIN metadataTier_.callSites :
           metadataTier_.callSites[i].kind \in DebugKinds}) = 3

\* The trapFarJumps_ entries a step's linkCallSites pass appends: the step's
\* new entries but for those of the code it links.
PassTrapFarJumps ==
    LET code == IF Len(linked') > Len(linked)
                THEN Len(Last(linked').code.trapFarJumps) ELSE 0
    IN  (Len(trapFarJumps_) + 1) .. (Len(trapFarJumps_') - code)

\* C25: one linkCallSites pass appends at most one trapFarJumps entry per
\* trap, each with one FarJumpIsland code range of its own that begins with
\* the TLS reload; every TrapExit call site the pass visits is patched to
\* the island the pass appended for its trap; and in a finished module
\* every trap far jump targets trapCodeOffsets of its trap, the begin of
\* that trap's exit stub.
C25_OneTrapIslandPerTrapPerPass ==
    /\ [][/\ \A a, b \in PassTrapFarJumps :
                a # b => trapFarJumps_'[a].trap # trapFarJumps_'[b].trap
          /\ \A a \in PassTrapFarJumps :
                Cardinality({r \in PassCodeRanges :
                    /\ metadataTier_'.codeRanges[r].kind = "FarJumpIsland"
                    /\ metadataTier_'.codeRanges[r].begin + TlsReloadSize
                           = trapFarJumps_'[a].jump}) = 1
          /\ \A i \in PassCallSites :
                metadataTier_'.callSites[i].kind = "TrapExit" =>
                    LET callerOffset == metadataTier_'.callSites[i].returnAddressOffset
                    IN  /\ callerOffset \in DOMAIN masm_'.calls
                        /\ \E a \in PassTrapFarJumps :
                              /\ trapFarJumps_'[a].trap = callSiteTargets_[i].trap
                              /\ trapFarJumps_'[a].jump
                                     = masm_'.calls[callerOffset] + TlsReloadSize]_vars
    /\ [](pc = "finished" =>
            \A k \in DOMAIN trapFarJumps_ :
                /\ trapFarJumps_[k].jump \in DOMAIN masm_.farJumps
                /\ masm_.farJumps[trapFarJumps_[k].jump]
                       = trapCodeOffsets_[trapFarJumps_[k].trap]
                /\ \E r \in DOMAIN metadataTier_.codeRanges :
                      /\ metadataTier_.codeRanges[r].kind = "TrapExit"
                      /\ metadataTier_.codeRanges[r].trap = trapFarJumps_[k].trap
                      /\ metadataTier_.codeRanges[r].begin
                             = trapCodeOffsets_[trapFarJumps_[k].trap])

\* A finished module in which two call sites of one trap share an island
\* and a call site of the other trap has its own.
C25_Witness ==
    /\ pc = "finished"
    /\ \E i, j, k \in DOMAIN metadataTier_.callSites :
          /\ i # j
          /\ metadataTier_.callSites[i].kind = "TrapExit"
          /\ metadataTier_.callSites[j].kind = "TrapExit"
          /\ metadataTier_.callSites[k].kind = "TrapExit"
          /\ callSiteTargets_[i].trap = callSiteTargets_[j].trap
          /\ callSiteTargets_[k].trap # callSiteTargets_[i].trap
          /\ masm_.calls[metadataTier_.callSites[i].returnAddressOffset]
                 = masm_.calls[metadataTier_.callSites[j].returnAddressOffset]
          /\ masm_.calls[metadataTier_.callSites[k].returnAddressOffset]
                 # masm_.calls[metadataTier_.callSites[i].returnAddressOffset]

\* finishTask links the output of a task in this step.
FinishTaskStep ==
    /\ Len(linked') = Len(linked) + 1
    /\ Last(linked').code.codeRanges[1].kind = "Function"

\* finishCodeSegment links the stubs and calls finishLinking in this step.
FinishLinkingStep ==
    /\ Len(linked') = Len(linked) + 1
    /\ Last(linked').code.codeRanges[1].kind # "Function"

\* C26: finishTask runs a linkCallSites pass, after moving
\* startOfUnpatchedCallsites_ to the aligned size of the buffer, exactly
\* when that size plus the length of the output is branchRange or more away
\* from startOfUnpatchedCallsites_, and otherwise appends the output with no
\* pass; finishLinking runs one pass; no other step visits a call site.
C26_WhenLinkCallSitesRuns ==
    [][/\ FinishTaskStep =>
             LET code == Last(linked').code
                 size == ((masm_.size + CodeAlignment - 1) \div CodeAlignment)
                             * CodeAlignment
             IN  IF Distance(startOfUnpatchedCallsites_, size + code.bytesLength)
                        >= Min(jumpThreshold, JumpImmediateRange)
                 THEN /\ startOfUnpatchedCallsites_' = size
                      /\ lastPatchedCallSite_' = Len(metadataTier_.callSites)
                 ELSE /\ startOfUnpatchedCallsites_' = startOfUnpatchedCallsites_
                      /\ lastPatchedCallSite_' = lastPatchedCallSite_
                      /\ masm_'.size = size + code.bytesLength
                      /\ masm_'.calls = masm_.calls
                      /\ Len(metadataTier_'.codeRanges)
                             = Len(metadataTier_.codeRanges) + Len(code.codeRanges)
       /\ FinishLinkingStep =>
             /\ startOfUnpatchedCallsites_' = startOfUnpatchedCallsites_
             /\ lastPatchedCallSite_' = Len(metadataTier_'.callSites)
       /\ Len(linked') = Len(linked) =>
             /\ lastPatchedCallSite_' = lastPatchedCallSite_
             /\ startOfUnpatchedCallsites_' = startOfUnpatchedCallsites_
             /\ masm_' = masm_]_vars

\* A finished module of three tasks and the stubs: finishTask linked the
\* first two tasks with no pass and ran a pass before the third, which
\* patched a call to an island, and finishLinking patched another call.
C26_Witness ==
    /\ pc = "finished"
    /\ Len(linked) = 4
    /\ startOfUnpatchedCallsites_ > 0
    /\ startOfUnpatchedCallsites_ = linked[2].size
    /\ linked[3].codeRanges > linked[2].codeRanges + 1
    /\ Cardinality(DOMAIN masm_.calls) >= 2

InFinishOutstandingTask ==
    pc \in {"compileFuncDef.finishOutstandingTask", "compileFuncDef.wait",
            "finishFuncDefs.finishOutstandingTask", "finishFuncDefs.wait"}

WaitingInFinishOutstandingTask == pc \in {"compileFuncDef.wait", "finishFuncDefs.wait"}

\* The coordinator, at the head of the loop of finishOutstandingTask, takes
\* its turn.
CoordinatorTurn ==
    /\ pc \in {"compileFuncDef.finishOutstandingTask", "finishFuncDefs.finishOutstandingTask"}
    /\ pc' \in {"failed", "idle", "compileFuncDef.launchBatchCompile",
                "compileFuncDef.wait", "finishFuncDefs.wait",
                "finishFuncDefs.finishOutstandingTask"}

\* The helper threads keep running and reporting the generator's tasks and
\* the coordinator's thread keeps running.
SpecProgress ==
    /\ InitFair /\ [][Next]_vars
    /\ WF_vars(HelperThreadExecute) /\ WF_vars(HelperThreadReport)
    /\ WF_pc(CoordinatorTurn)

\* C27: the coordinator waits in finishOutstandingTask only with tasks
\* outstanding, no failure recorded and the finished list empty, and then
\* one of its tasks is on the worklist or with a worker; and it does not
\* stay in finishOutstandingTask, nor in the loop of finishFuncDefs, for
\* ever.
C27_WaitsOnlyForRunningTasks ==
    /\ [](WaitingInFinishOutstandingTask =>
            /\ outstanding_ > 0
            /\ taskState_.numFailed = 0
            /\ taskState_.finished = << >>
            /\ Len(OwnWorklistEntries) + Cardinality(DOMAIN helperThreads) = outstanding_)
    /\ InFinishOutstandingTask
           ~> (pc \in {"idle", "failed", "compileFuncDef.launchBatchCompile"})

\* finishFuncDefs is blocked on the condition variable with two tasks
\* outstanding.
C27_Witness ==
    /\ pc = "finishFuncDefs.wait"
    /\ outstanding_ = 2
    /\ Cardinality(DOMAIN helperThreads) = 1

\* The padding from length to the next multiple of align.
Padding(length, align) ==
    CHOOSE p \in 0 .. (align - 1) : ((length % align) + p) % align = 0

\* C28: a call of allocateGlobalBytes fails, leaving globalDataLength as it
\* was, exactly when the aligned offset or the end of the region would go
\* beyond the largest 32-bit value; otherwise it returns the least multiple
\* of align that is at least the old globalDataLength and sets
\* globalDataLength to that offset plus bytes; regions handed out never
\* overlap; a global gets 4, 8 or 16 bytes by its type, aligned to its
\* width.  (The word of the model ends at UINT32_MAX.)
C28_GlobalDataAllocation ==
    /\ [][Len(allocated') > Len(allocated) =>
             LET call == Last(allocated')
                 padding == Padding(globalDataLength_, call.align)
                 fits == /\ padding <= UINT32_MAX - globalDataLength_
                         /\ call.bytes <= UINT32_MAX - globalDataLength_ - padding
             IN  /\ call.ok = fits
                 /\ ~call.ok => globalDataLength_' = globalDataLength_
                 /\ call.ok =>
                       /\ call.offset = globalDataLength_ + padding
                       /\ call.offset % call.align = 0
                       /\ call.offset >= globalDataLength_
                       /\ globalDataLength_' = call.offset + call.bytes
                 /\ call.type # "bytes" =>
                       /\ call.bytes = call.align
                       /\ call.bytes = IF call.type \in {"I32", "F32"} THEN 4
                                       ELSE IF call.type \in {"I64", "F64"} THEN 8
                                       ELSE 16]_vars
    /\ [](\A i, j \in DOMAIN allocated :
             (i < j /\ allocated[i].ok /\ allocated[j].ok) =>
                 allocated[i].offset + allocated[i].bytes <= allocated[j].offset)

\* A call that fails on the addition of bytes, after one that succeeded
\* with padding and before one that succeeds.
C28_Witness ==
    /\ Len(allocated) = 3
    /\ allocated[1].ok /\ allocated[1].bytes = 1
    /\ ~allocated[2].ok /\ allocated[2].offset # Invalid
    /\ allocated[3].ok /\ allocated[3].offset = allocated[3].align

\* C29: once finishFuncDefs has returned success there is no current task,
\* batchedBytecode_ and outstanding_ are 0, and every task of the pool is
\* on the free list, once, with no inputs and no output, the first task
\* among them, whose output the stubs are generated into.
C29_PoolIdleAfterFinishFuncDefs ==
    (finishedFuncDefs_ /\ pc = "idle") =>
        /\ currentTask_ = 0
        /\ batchedBytecode_ = 0
        /\ outstanding_ = 0
        /\ Len(freeTasks_) = Len(tasks_)
        /\ {freeTasks_[i] : i \in DOMAIN freeTasks_} = DOMAIN tasks_
        /\ \A task \in DOMAIN tasks_ :
              /\ tasks_[task].inputs = << >>
              /\ tasks_[task].output = EmptyCode
        /\ tasks_ # << >>

\* finishFuncDefs has returned success in parallel mode after launching the
\* partially filled task and draining two tasks.
C29_Witness ==
    /\ finishedFuncDefs_ /\ pc = "idle"
    /\ parallel_
    /\ Len(tasks_) = 2
    /\ Len(linked) = 2
    /\ Len(finishedLog) = 2
    /\ env_.funcDefs[NumFuncs - 1].bytecodeLength <= wasmBatchThreshold

\* How many times a task occurs in a list of tasks.
Occurrences(list, task) == Cardinality({i \in DOMAIN list : list[i] = task})

\* The number of places that hold a task: the free list, currentTask_, the
\* worklist, a helper thread that runs it, the finished list.  A task that
\* is being linked is popped, linked and pushed on the free list in one step
\* of the coordinator.
Places(task) ==
    Occurrences(freeTasks_, task)
    + (IF currentTask_ = task THEN 1 ELSE 0)
    + Occurrences([i \in DOMAIN OwnWorklistEntries |-> OwnWorklistEntries[i].task], task)
    + (IF task \in DOMAIN helperThreads THEN 1 ELSE 0)
    + Occurrences(taskState_.finished, task)

\* A task that a helper thread may still write to.
WithWorker(task) ==
    \/ \E i \in DOMAIN OwnWorklistEntries : OwnWorklistEntries[i].task = task
    \/ task \in DOMAIN helperThreads

DestructorBegun == InDestructor \/ pc = "destroyed"

\* |freeTasks_| + (1 if currentTask_ is set) + outstanding_ = |tasks_|.
PoolAccounted ==
    Len(freeTasks_) + (IF currentTask_ # 0 THEN 1 ELSE 0) + outstanding_ = Len(tasks_)

InFlight ==
    Len(OwnWorklistEntries) + Cardinality(DOMAIN helperThreads)
    + Len(taskState_.finished) + taskState_.numFailed

\* A helper thread reports the task it has executed in this step.
ReportStep == Cardinality(DOMAIN helperThreads') < Cardinality(DOMAIN helperThreads)

\* C31: in parallel mode, between the steps of the coordinator and of the
\* helper threads, outstanding_ is the number of this generator's tasks on
\* the worklist, with a helper thread, on the finished list or counted in
\* numFailed; a helper thread that reports a task adds either one entry to
\* finished or one to numFailed and never both; outstanding_ never wraps
\* around below zero; and what the destructor subtracts from outstanding_,
\* the number of tasks it erased from the worklist, then the length of
\* finished, then numFailed, is never more than what is left of it.
C31_OutstandingCountsInFlight ==
    /\ [](parallel_ => outstanding_ = InFlight)
    /\ [](outstanding_ <= Len(tasks_))
    /\ [][ReportStep =>
            \/ /\ Len(taskState_'.finished) = Len(taskState_.finished) + 1
               /\ taskState_'.numFailed = taskState_.numFailed
            \/ /\ taskState_'.finished = taskState_.finished
               /\ taskState_'.numFailed = taskState_.numFailed + 1]_vars
    /\ [][(pc \in {"idle", "failed", "finished"} /\ pc' # pc /\ parallel_
             /\ outstanding_ # 0)
            => outstanding_ >= Len(wasmWorklist) - Len(EraseIf(wasmWorklist))]_vars
    /\ [](pc = "~ModuleGenerator.drain" =>
            /\ outstanding_ >= Len(taskState_.finished)
            /\ outstanding_ - Len(taskState_.finished) >= taskState_.numFailed)

\* Both tasks of the pool have been launched; one is on the finished list
\* and a worker has failed on the other.
C31_Witness ==
    /\ parallel_
    /\ outstanding_ = 2
    /\ Len(taskState_.finished) = 1
    /\ taskState_.numFailed = 1

\* The call sites linkCallSites has not visited yet.
UnvisitedCallSites == (lastPatchedCallSite_ + 1) .. Len(metadataTier_.callSites)

\* C32: lastPatchedCallSite_ never decreases and is at most the number of
\* call sites; the call sites linkCallSites has visited so far are the first
\* lastPatchedCallSite_ ones, each visited once and in order, and all of them
\* once the code segment is finished; a patched call is never patched again;
\* callSiteTargets_ is as long as metadataTier.callSites; and the return
\* address of every call site not visited yet is at or after
\* startOfUnpatchedCallsites_.
C32_WatermarksConsistent ==
    /\ [](lastPatchedCallSite_ <= Len(metadataTier_.callSites))
    /\ [][lastPatchedCallSite_' >= lastPatchedCallSite_]_vars
    /\ [](visited = [i \in 1 .. lastPatchedCallSite_ |-> i])
    /\ [](pc = "finished" => Len(visited) = Len(metadataTier_.callSites))
    /\ [][\A caller \in DOMAIN masm_.calls :
            /\ caller \in DOMAIN masm_'.calls
            /\ masm_'.calls[caller] = masm_.calls[caller]]_vars
    /\ [](Len(callSiteTargets_) = Len(metadataTier_.callSites))
    /\ [](\A i \in UnvisitedCallSites :
            metadataTier_.callSites[i].returnAddressOffset >= startOfUnpatchedCallsites_)

\* A pass between two tasks has visited some call sites, and the code linked
\* after it has call sites that wait for the next pass.
C32_Witness ==
    /\ lastPatchedCallSite_ > 0
    /\ startOfUnpatchedCallsites_ > 0
    /\ UnvisitedCallSites # {}
    /\ Len(visited) = lastPatchedCallSite_

====
